---- MODULE Spec2Model ----
(***************************************************************************)
(* A model of the monitoring core of spacecat: the ChatUpdater polling     *)
(* loop (src/src/chat_updater.rs), the ChatServiceManager fan-out          *)
(* (src/src/chat/mod.rs) and the sequence-tree target resolver             *)
(* (src/src/sequence.rs).                                                  *)
(*                                                                         *)
(* Conventions.                                                            *)
(*  - Option<T> is a sequence of length 0 or 1: None == <<>>,              *)
(*    Some(x) == <<x>>.                                                    *)
(*  - Strings that the code inspects (ends_with, strip_suffix, contains,   *)
(*    <) are sequences of one-character strings; Str joins such a sequence *)
(*    into a TLA+ string where the code formats it.  Strings that the code *)
(*    only tests for equality or formats (event kinds, statuses) are TLA+  *)
(*    strings.                                                             *)
(*  - An Instant is kept as the time elapsed since it (see Later).         *)
(***************************************************************************)
EXTENDS Integers, Sequences, FiniteSets, TLC

VARIABLES
    pc,                     \* position of start_polling
    services,               \* ChatServiceManager.services (registration order)
    events_seen,            \* UpdaterState.events_seen
    images_seen,            \* UpdaterState.images_seen
    current_target,         \* UpdaterState.current_target
    meridian_flip_time,     \* UpdaterState.meridian_flip_time
    sequence,               \* UpdaterState.sequence
    last_image_time,        \* UpdaterState.last_image_time, as time elapsed
    skipped_images_count,   \* UpdaterState.skipped_images_count
    remote,                 \* the records the remote API serves during the run
    fetched,                \* the response body the current phase iterates over
    index,                  \* position of the loop inside fetched
    out,                    \* what the last step did: dispatches, fetches, calls
    history,                \* what has happened so far (see NoHistory)
    call,                   \* the call awaited, or a library call checked on its own
    ret                     \* its result

vars ==
    <<pc, services, events_seen, images_seen, current_target,
      meridian_flip_time, sequence, last_image_time, skipped_images_count,
      remote, fetched, index, out, history, call, ret>>

-----------------------------------------------------------------------------
(* Bounds of the model.                                                    *)

MaxNodes == 3

MaxChannels == 3

\* The monitor: services registered, events or images in one fetched
\* history, the image cooldown and the poll interval (in clock units), and
\* the longest time that passes between two steps or two clock readings
\* other than in the sleep.
MaxServices == 2

MaxBatch == 2

ImageCooldown == 2

PollInterval == 1

MaxDelay == 2

-----------------------------------------------------------------------------
(* Option and string helpers.                                              *)

None == <<>>

Some(x) == <<x>>

IsSome(o) == o # <<>>

Unwrap(o) == o[1]

Range(f) == { f[i] : i \in DOMAIN f }

RECURSIVE Str(_)
Str(chars) ==
    IF chars = <<>> THEN "" ELSE Head(chars) \o Str(Tail(chars))

\* str::ends_with
EndsWith(s, suffix) ==
    /\ Len(suffix) <= Len(s)
    /\ SubSeq(s, Len(s) - Len(suffix) + 1, Len(s)) = suffix

\* str::strip_suffix
StripSuffix(s, suffix) ==
    IF EndsWith(s, suffix) THEN Some(SubSeq(s, 1, Len(s) - Len(suffix))) ELSE None

\* str::contains
Contains(s, sub) ==
    \E i \in 0..(Len(s) - Len(sub)) : SubSeq(s, i + 1, i + Len(sub)) = sub

-----------------------------------------------------------------------------
(* chat/mod.rs: ChatServiceManager.                                        *)

\* One ChatService::send_message / send_message_with_image call on one
\* service.  The outcome of the call is the backend's: `failing` is the set
\* of services whose send returns Err.
Attempt(service, failing, attachment) ==
    [service |-> service, attachment |-> attachment, ok |-> service \notin failing]

\* A faulty variant of Broadcast: the loop propagates the first Err (as `?` would) and
\* the services after the failing one are not attempted.
RECURSIVE BroadcastUntilError(_, _, _)
BroadcastUntilError(svcs, failing, attachment) ==
    IF svcs = <<>> THEN <<>>
    ELSE IF Head(svcs) \in failing
         THEN <<Attempt(Head(svcs), failing, attachment)>>
         ELSE <<Attempt(Head(svcs), failing, attachment)>>
              \o BroadcastUntilError(Tail(svcs), failing, attachment)

\* `for service in &self.services { if let Err(e) = service.send..(..).await
\* { eprintln!(..) } }`: the attempts made, in order.
RECURSIVE Broadcast(_, _, _)
Broadcast(svcs, failing, attachment) ==
    IF svcs = <<>> THEN <<>>
    ELSE <<Attempt(Head(svcs), failing, attachment)>>
         \o Broadcast(Tail(svcs), failing, attachment)

send_message(svcs, failing) ==
    [returned |-> TRUE, thumbnail_fetches |-> 0,
     attempts |-> Broadcast(svcs, failing, FALSE)]

\* A faulty variant of send_message_with_image: a failed thumbnail download drops the
\* notification.
send_message_with_image_no_fallback(svcs, failing, thumbnail_ok) ==
    [returned |-> TRUE, thumbnail_fetches |-> 1,
     attempts |-> IF thumbnail_ok THEN Broadcast(svcs, failing, TRUE) ELSE <<>>]

send_message_with_image(svcs, failing, thumbnail_ok) ==
    IF thumbnail_ok
    THEN [returned |-> TRUE, thumbnail_fetches |-> 1,
          attempts |-> Broadcast(svcs, failing, TRUE)]
    ELSE [send_message(svcs, failing) EXCEPT !.thumbnail_fetches = 1]

service_count(svcs) == Len(svcs)

-----------------------------------------------------------------------------
(* sequence.rs: the target resolver.                                       *)

SUFFIX ==
    <<"_", "C", "o", "n", "t", "a", "i", "n", "e", "r">>

StartContainer ==
    <<"S", "t", "a", "r", "t">> \o SUFFIX

EndContainer ==
    <<"E", "n", "d">> \o SUFFIX

TargetsContainer ==
    <<"T", "a", "r", "g", "e", "t", "s">> \o SUFFIX

StartupContainer ==
    <<"B", "a", "s", "i", "c", " ", "S", "e", "q", "u", "e", "n", "c", "e", " ",
      "S", "t", "a", "r", "t", "u", "p">> \o SUFFIX

BasicEndContainer ==
    <<"B", "a", "s", "i", "c", " ", "S", "e", "q", "u", "e", "n", "c", "e", " ",
      "E", "n", "d">> \o SUFFIX

ImagingContainer ==
    <<"T", "a", "r", "g", "e", "t", " ", "I", "m", "a", "g", "i", "n", "g", " ",
      "I", "n", "s", "t", "r", "u", "c", "t", "i", "o", "n", "s">> \o SUFFIX

ParallelEndContainer ==
    <<"P", "a", "r", "a", "l", "l", "e", "l", " ", "E", "n", "d", " ", "o", "f", " ",
      "S", "e", "q", "u", "e", "n", "c", "e", " ",
      "I", "n", "s", "t", "r", "u", "c", "t", "i", "o", "n", "s">> \o SUFFIX

system_containers ==
    { StartContainer, EndContainer, TargetsContainer, StartupContainer,
      BasicEndContainer, ImagingContainer, ParallelEndContainer }

\* A faulty variant of is_system_container: "Targets_Container" is missing
\* from the list.
is_system_container_without_targets(name) ==
    \E sys_name \in system_containers \ {TargetsContainer} :
        Contains(name, sys_name)

is_system_container(name) ==
    \E sys_name \in system_containers : Contains(name, sys_name)

\* The condition of the `if` at sequence.rs:243-245.
is_running_target_container(name, status) ==
    /\ status = "RUNNING" \/ status = "Active"
    /\ EndsWith(name, SUFFIX)
    /\ ~is_system_container(name)

\* A node of the tree is a JSON object, modelled by the three keys the
\* resolver reads: Name and Status are None when the key is absent or not a
\* string, Items is the empty sequence when the key is absent or not an array
\* (the code then skips the nested search, as it does for an empty array).
Node(name, status, items) ==
    [Name |-> name, Status |-> status, Items |-> items]

\* A faulty variant of search_containers: the Items of a node are searched before the
\* node itself is tested (post-order instead of pre-order).
RECURSIVE search_containers_items_first(_)
search_containers_items_first(values) ==
    IF values = <<>> THEN None
    ELSE LET obj == Head(values)
             nested == search_containers_items_first(obj.Items)
             target_name ==
                 IF IsSome(obj.Name) THEN StripSuffix(Unwrap(obj.Name), SUFFIX)
                 ELSE None
         IN  IF IsSome(obj.Name) /\ IsSome(obj.Status) /\ IsSome(nested)
             THEN nested
             ELSE IF /\ IsSome(obj.Name) /\ IsSome(obj.Status)
                     /\ is_running_target_container(Unwrap(obj.Name),
                                                    Unwrap(obj.Status))
                     /\ Unwrap(target_name) # <<>>
                  THEN target_name
                  ELSE search_containers_items_first(Tail(values))

\* A faulty variant of search_containers: the stripped name is not tested for
\* emptiness.
RECURSIVE search_containers_accepting_empty(_)
search_containers_accepting_empty(values) ==
    IF values = <<>> THEN None
    ELSE LET obj == Head(values)
             rest == search_containers_accepting_empty(Tail(values))
         IN  IF IsSome(obj.Name) /\ IsSome(obj.Status)
             THEN LET name == Unwrap(obj.Name)
                      status == Unwrap(obj.Status)
                      stripped == StripSuffix(name, SUFFIX)
                      target_name ==
                          IF IsSome(stripped) THEN Unwrap(stripped) ELSE name
                      nested == search_containers_accepting_empty(obj.Items)
                  IN  IF is_running_target_container(name, status)
                      THEN Some(target_name)
                      ELSE IF IsSome(nested) THEN nested ELSE rest
             ELSE rest

\* A faulty variant of search_containers: the Items of a deny-listed container
\* are not searched.
RECURSIVE search_containers_skipping_system(_)
search_containers_skipping_system(values) ==
    IF values = <<>> THEN None
    ELSE LET obj == Head(values)
             rest == search_containers_skipping_system(Tail(values))
         IN  IF IsSome(obj.Name) /\ IsSome(obj.Status)
             THEN LET name == Unwrap(obj.Name)
                      status == Unwrap(obj.Status)
                      stripped == StripSuffix(name, SUFFIX)
                      target_name ==
                          IF IsSome(stripped) THEN Unwrap(stripped) ELSE name
                      nested == IF is_system_container(name) THEN None
                                ELSE search_containers_skipping_system(obj.Items)
                  IN  IF /\ is_running_target_container(name, status)
                         /\ target_name # <<>>
                      THEN Some(target_name)
                      ELSE IF IsSome(nested) THEN nested ELSE rest
             ELSE rest

RECURSIVE search_containers(_)
search_containers(values) ==
    IF values = <<>> THEN None
    ELSE LET obj == Head(values)
             rest == search_containers(Tail(values))
         IN  IF IsSome(obj.Name) /\ IsSome(obj.Status)
             THEN LET name == Unwrap(obj.Name)
                      status == Unwrap(obj.Status)
                      \* strip_suffix(..).unwrap_or(name)
                      stripped == StripSuffix(name, SUFFIX)
                      target_name ==
                          IF IsSome(stripped) THEN Unwrap(stripped) ELSE name
                      nested == search_containers(obj.Items)
                  IN  IF /\ is_running_target_container(name, status)
                         /\ target_name # <<>>
                      THEN Some(target_name)
                      ELSE IF IsSome(nested) THEN nested ELSE rest
             ELSE rest

extract_current_target(response) == search_containers(response)

-----------------------------------------------------------------------------
(* The sequence trees the resolver is run on: every forest of at most      *)
(* MaxNodes nodes whose nodes carry one of the labels below.               *)

M31 == <<"M", "3", "1">>

M42 == <<"M", "4", "2">>

NodeLabels ==
    { [Name |-> Some(M31 \o SUFFIX), Status |-> Some("RUNNING")],
      [Name |-> Some(M42 \o SUFFIX), Status |-> Some("Active")],
      [Name |-> Some(M31 \o SUFFIX), Status |-> Some("FINISHED")],
      [Name |-> Some(TargetsContainer), Status |-> Some("RUNNING")],
      [Name |-> Some(SUFFIX), Status |-> Some("RUNNING")],
      [Name |-> Some(M31 \o <<" ">> \o StartContainer), Status |-> Some("RUNNING")],
      [Name |-> Some(<<"E", "x", "p", "o", "s", "e">>), Status |-> Some("RUNNING")],
      [Name |-> None, Status |-> None] }

RECURSIVE Forests(_)
Forests(n) ==
    IF n = 0 THEN { <<>> }
    ELSE UNION { { <<Node(l.Name, l.Status, inner)>> \o after :
                     l \in NodeLabels,
                     inner \in Forests(k),
                     after \in Forests(n - 1 - k) } : k \in 0..(n - 1) }

\* The responses of at most n containers.
SequenceTrees(n) == UNION { Forests(k) : k \in 0..n }

\* The responses of one container without items: each system container name
\* and some other names, under each status.
ContainerNames ==
    system_containers
    \cup { M31 \o SUFFIX, M31, SUFFIX, M31 \o <<" ">> \o StartContainer,
           TargetsContainer \o <<"2">> }

ContainerStatuses == { "RUNNING", "Active", "FINISHED", "CREATED", "running" }

SingleContainers ==
    { <<Node(Some(name), Some(status), <<>>)>> :
        name \in ContainerNames, status \in ContainerStatuses }

-----------------------------------------------------------------------------
(* events.rs, images.rs: the records the monitor reads, and their keys.    *)

Ok(x) == [ok |-> TRUE, value |-> x]

Err == [ok |-> FALSE]

FILTERWHEEL_CHANGED == "FILTERWHEEL-CHANGED"

TS_TARGETSTART == "TS-TARGETSTART"

AUTOFOCUS_FINISHED == "AUTOFOCUS-FINISHED"

MOUNT_BEFORE_FLIP == "MOUNT-BEFORE-FLIP"

MOUNT_AFTER_FLIP == "MOUNT-AFTER-FLIP"

MOUNT_PARKED == "MOUNT-PARKED"

IMAGE_SAVE == "IMAGE-SAVE"

SEQUENTIAL_INSTRUCTION_SET ==
    <<"S", "e", "q", "u", "e", "n", "t", "i", "a", "l", " ",
      "I", "n", "s", "t", "r", "u", "c", "t", "i", "o", "n", " ", "S", "e", "t">>

FilterInfo(name, id) == [name |-> name, id |-> id]

FilterWheelChange(new, previous) ==
    [variant |-> "FilterWheelChange", new |-> new, previous |-> previous]

TargetStart(target_name, coordinates, project_name, rotation) ==
    [variant |-> "TargetStart", target_name |-> target_name,
     coordinates |-> coordinates, project_name |-> project_name,
     rotation |-> rotation]

Event(time, event, details) == [time |-> time, event |-> event, details |-> details]

ImageMetadata(date, camera_name, image_type) ==
    [date |-> date, camera_name |-> camera_name, image_type |-> image_type]

\* #[derive(Debug)] on FilterInfo.
DebugFilterInfo(f) ==
    "FilterInfo { name: " \o ToString(f.name) \o ", id: " \o ToString(f.id) \o " }"

\* #[derive(Debug)] on EventDetails.
DebugEventDetails(d) ==
    IF d.variant = "FilterWheelChange"
    THEN "FilterWheelChange { new: " \o DebugFilterInfo(d.new)
         \o ", previous: " \o DebugFilterInfo(d.previous) \o " }"
    ELSE "TargetStart { target_name: " \o ToString(Str(d.target_name))
         \o ", coordinates: " \o ToString(d.coordinates)
         \o ", project_name: " \o ToString(d.project_name)
         \o ", rotation: " \o ToString(d.rotation) \o " }"

\* `{:?}` of an Option<EventDetails>.
DebugDetails(details) ==
    IF details = None THEN "None"
    ELSE "Some(" \o DebugEventDetails(Unwrap(details)) \o ")"

event_key(event) ==
    Str(event.time) \o "|" \o event.event \o "|" \o DebugDetails(event.details)

image_key(image) == image.date \o "|" \o image.camera_name

\* String's `<`: byte-wise lexicographic order.  Timestamps are strings of
\* digits here.
CharCode(c) ==
    CASE c = "0" -> 48 [] c = "1" -> 49 [] c = "2" -> 50 [] c = "3" -> 51
      [] c = "4" -> 52 [] c = "5" -> 53 [] c = "6" -> 54 [] c = "7" -> 55
      [] c = "8" -> 56 [] c = "9" -> 57

RECURSIVE StringLess(_, _)
StringLess(a, b) ==
    IF b = <<>> THEN FALSE
    ELSE IF a = <<>> THEN TRUE
    ELSE IF Head(a) # Head(b) THEN CharCode(Head(a)) < CharCode(Head(b))
    ELSE StringLess(Tail(a), Tail(b))

\* The histories the remote API serves.
EvCameraConnected == Event(<<"1">>, "CAMERA-CONNECTED", None)

EvFilterNoop ==
    Event(<<"2">>, FILTERWHEEL_CHANGED,
          Some(FilterWheelChange(FilterInfo("HA", 0), FilterInfo("HA", 0))))

EvFilterChange ==
    Event(<<"2">>, FILTERWHEEL_CHANGED,
          Some(FilterWheelChange(FilterInfo("OIII", 1), FilterInfo("HA", 0))))

EvTargetM31 ==
    Event(<<"3">>, TS_TARGETSTART, Some(TargetStart(M31, "ra1", "proj", 0)))

EvTargetM42 ==
    Event(<<"4">>, TS_TARGETSTART, Some(TargetStart(M42, "ra2", "proj", 90)))

EvTargetPlaceholder ==
    Event(<<"5">>, TS_TARGETSTART,
          Some(TargetStart(SEQUENTIAL_INSTRUCTION_SET, "ra0", "", 0)))

EvAutofocus == Event(<<"6">>, AUTOFOCUS_FINISHED, None)

Image1 == ImageMetadata("d1", "ASI", "LIGHT")

Image2 == ImageMetadata("d2", "ASI", "LIGHT")

Image3 == ImageMetadata("d3", "ASI", "DARK")

\* The histories a fetch returns: the sequences of at most n records of S.
Histories(S, n) == UNION { [1..k -> S] : k \in 0..n }

\* Node 0 of a sequence response: the object holding GlobalTriggers.  A
\* trigger is modelled by its Name and its TimeToFlip (None when absent or
\* not a number); hours are counted in thousandths.
GlobalTriggers(triggers) ==
    [Name |-> None, Status |-> None, Items |-> <<>>, GlobalTriggers |-> triggers]

MeridianFlipTrigger(time_to_flip) ==
    [Name |-> "Meridian Flip_Trigger", TimeToFlip |-> time_to_flip]

RECURSIVE find_time_to_flip(_)
find_time_to_flip(triggers) ==
    IF triggers = <<>> THEN None
    ELSE IF /\ Head(triggers).Name = "Meridian Flip_Trigger"
            /\ IsSome(Head(triggers).TimeToFlip)
         THEN Head(triggers).TimeToFlip
         ELSE find_time_to_flip(Tail(triggers))

extract_meridian_flip_time(response) ==
    IF response = <<>> THEN None
    ELSE IF "GlobalTriggers" \notin DOMAIN Head(response) THEN None
    ELSE find_time_to_flip(Head(response).GlobalTriggers)

SequenceIdle == << GlobalTriggers(<<>>) >>

SequenceM31 ==
    << GlobalTriggers(<<MeridianFlipTrigger(Some(2500))>>),
       Node(Some(TargetsContainer), Some("RUNNING"),
            << Node(Some(M31 \o SUFFIX), Some("RUNNING"), <<>>) >>) >>

SequenceM42 ==
    << GlobalTriggers(<<MeridianFlipTrigger(Some(500))>>),
       Node(Some(M42 \o SUFFIX), Some("Active"), <<>>) >>

\* The remote API of a run: the events, images and sequence trees it serves
\* at some time of the run.  A run is checked against each of these.
RemoteProfiles ==
    { [events |-> {EvCameraConnected, EvFilterNoop, EvFilterChange},
       images |-> {},
       sequences |-> {SequenceIdle}],
      [events |-> {EvTargetM31, EvTargetM42, EvTargetPlaceholder},
       images |-> {},
       sequences |-> {SequenceIdle, SequenceM31, SequenceM42}],
      [events |-> {},
       images |-> {Image1, Image2, Image3},
       sequences |-> {SequenceM42}],
      [events |-> {EvAutofocus, EvTargetM31},
       images |-> {Image1},
       sequences |-> {SequenceM31}] }

-----------------------------------------------------------------------------
(* chat_updater.rs: UpdaterState and the handlers of ChatUpdater, each an   *)
(* operator from the state before (and the handler's inputs) to the state  *)
(* after and the effects of the call.                                      *)

State ==
    [events_seen |-> events_seen, images_seen |-> images_seen,
     current_target |-> current_target,
     meridian_flip_time |-> meridian_flip_time, sequence |-> sequence,
     last_image_time |-> last_image_time,
     skipped_images_count |-> skipped_images_count]

UpdaterState_new ==
    [events_seen |-> {}, images_seen |-> {}, current_target |-> None,
     meridian_flip_time |-> None, sequence |-> None, last_image_time |-> None,
     skipped_images_count |-> 0]

TargetInfo(name, source, coordinates, project, rotation) ==
    [name |-> name, source |-> source, coordinates |-> coordinates,
     project |-> project, rotation |-> rotation]

\* A faulty variant of has_seen_event: the set is tested and not updated.
has_seen_event_test_only(s, event) ==
    [seen |-> event_key(event) \in s.events_seen, state |-> s]

\* HashSet::insert returns whether the value was newly inserted.
has_seen_event(s, event) ==
    [seen |-> event_key(event) \in s.events_seen,
     state |-> [s EXCEPT !.events_seen = @ \cup {event_key(event)}]]

has_seen_image(s, image) ==
    [seen |-> image_key(image) \in s.images_seen,
     state |-> [s EXCEPT !.images_seen = @ \cup {image_key(image)}]]

IsFilterWheelChange(details) ==
    IsSome(details) /\ Unwrap(details).variant = "FilterWheelChange"

IsTargetStart(details) ==
    IsSome(details) /\ Unwrap(details).variant = "TargetStart"

\* The `continue` condition of process_baseline_events.
is_redundant_filterwheel_event(event) ==
    /\ event.event = FILTERWHEEL_CHANGED
    /\ IsFilterWheelChange(event.details)
    /\ Unwrap(event.details).new.name = Unwrap(event.details).previous.name

\* A faulty variant of should_process_event: nothing is filtered.
should_process_event_all(event) == TRUE

should_process_event(event) ==
    IF event.event = FILTERWHEEL_CHANGED /\ IsFilterWheelChange(event.details)
    THEN Unwrap(event.details).new.name # Unwrap(event.details).previous.name
    ELSE TRUE

\* Effects recorded in `out`.
Called(fn, key, seen) == [effect |-> fn, key |-> key, seen |-> seen]

Logged(text) == [effect |-> "log", text |-> text]

Fetched(what, response) == [effect |-> "fetch", what |-> what, response |-> response]

\* The decision of handle_new_image, with the last_image_time it was taken on.
Decided(should_send, last_time) ==
    [effect |-> "handle_new_image", should_send |-> should_send,
     last_image_time |-> last_time]

\* A send_*_notification method is called with the notification it builds:
\* the call awaits add_mount_info, which makes one get_mount_info fetch (for
\* the notifications that carry the mount's position), and then
\* ChatServiceManager::send_message or send_message_with_image.
Dispatched(message, mount_info_fetches) ==
    [effect |-> "dispatch", message |-> message,
     mount_info_fetches |-> mount_info_fetches]

\* get_last_autofocus is called (line 320).
Awaited(fn) == [effect |-> "await", fn |-> fn]

\* The send of one service of the loop of the ChatServiceManager has
\* returned (chat/mod.rs 129, 150-152).
Attempted(attempt) == [effect |-> "attempt", attempt |-> attempt]

\* The ChatServiceManager has returned: the thumbnail fetch and the attempts
\* it has made.
Sent(message, sent) == [effect |-> "sent", message |-> message, sent |-> sent]

TargetName(target) == IF IsSome(target) THEN Some(Unwrap(target).name) ELSE None

send_welcome_message(s, svcs) ==
    Dispatched([title |-> "Monitor Started",
                current_target |-> s.current_target,
                events_in_history |-> Cardinality(s.events_seen),
                images_in_history |-> Cardinality(s.images_seen),
                chat_services |-> service_count(svcs),
                meridian_flip |-> s.meridian_flip_time],
               1)

send_target_change_notification(s, old_target, new_target, svcs) ==
    Dispatched([title |-> "Target Change",
                previous_target |-> old_target.name,
                new_target |-> new_target.name,
                project |-> new_target.project,
                coordinates |-> new_target.coordinates,
                rotation |-> new_target.rotation,
                meridian_flip |-> s.meridian_flip_time],
               1)

send_target_start_notification(s, target, svcs) ==
    Dispatched([title |-> "Target Started",
                target |-> target.name,
                project |-> target.project,
                coordinates |-> target.coordinates,
                rotation |-> target.rotation,
                meridian_flip |-> s.meridian_flip_time],
               1)

send_autofocus_notification(svcs) ==
    Dispatched([title |-> "Autofocus Completed"], 0)

send_mount_event_notification(s, event, svcs) ==
    Dispatched([title |-> "Mount Event", event |-> event.event,
                time |-> event.time,
                current_target |-> TargetName(s.current_target)],
               1)

get_event_title(event) ==
    IF event = FILTERWHEEL_CHANGED THEN "Filter Changed"
    ELSE IF event = TS_TARGETSTART THEN "Target Started"
    ELSE event

\* The notifications of send_generic_event_notification: none when the
\* details are a TargetStart.
send_generic_event_notification(event, svcs) ==
    IF IsTargetStart(event.details) THEN <<>>
    ELSE << Dispatched([title |-> get_event_title(event.event),
                        time |-> event.time,
                        filter_change |->
                            IF IsFilterWheelChange(event.details)
                            THEN Some(<<Unwrap(event.details).previous.name,
                                        Unwrap(event.details).new.name>>)
                            ELSE None],
                       0) >>

send_image_notification(s, image, image_index, skipped_count, svcs) ==
    Dispatched([title |-> "New Frame Captured",
                image_type |-> image.image_type,
                skipped |-> skipped_count,
                images_since_last_post |->
                    IF skipped_count > 0 THEN Some(skipped_count + 1) ELSE None,
                target |-> TargetName(s.current_target),
                image |-> image_key(image),
                meridian_flip |->
                    IF /\ IsSome(s.meridian_flip_time)
                       /\ Unwrap(s.meridian_flip_time) <= 1000
                    THEN s.meridian_flip_time ELSE None,
                thumbnail_index |-> image_index],
               0)

\* target_changed, as computed in handle_ts_targetstart and poll_sequence.
target_changed(old_target, new_target) ==
    IF IsSome(old_target) THEN Unwrap(old_target).name # new_target.name ELSE TRUE

\* A faulty variant of update_target: a target that replaces one resolved
\* from the sequence is announced as a start.
update_target_restarting(s, new_target, svcs) ==
    IF target_changed(s.current_target, new_target)
    THEN LET s1 == [s EXCEPT !.current_target = Some(new_target)]
         IN  [state |-> s1,
              out |-> IF service_count(svcs) > 0
                      THEN IF /\ IsSome(s.current_target)
                              /\ Unwrap(s.current_target).source = "TsTargetStart"
                           THEN << send_target_change_notification(
                                      s1, Unwrap(s.current_target), new_target,
                                      svcs) >>
                           ELSE << send_target_start_notification(
                                      s1, new_target, svcs) >>
                      ELSE <<>>]
    ELSE [state |-> s, out |-> <<>>]

\* A faulty variant of update_target: every update is announced as a start.
update_target_always_started(s, new_target, svcs) ==
    IF target_changed(s.current_target, new_target)
    THEN LET s1 == [s EXCEPT !.current_target = Some(new_target)]
         IN  [state |-> s1,
              out |-> IF service_count(svcs) > 0
                      THEN << send_target_start_notification(
                                 s1, new_target, svcs) >>
                      ELSE <<>>]
    ELSE [state |-> s, out |-> <<>>]

\* The update of current_target and its notification, common to
\* handle_ts_targetstart (lines 294-312) and poll_sequence (lines 370-388).
update_target(s, new_target, svcs) ==
    IF target_changed(s.current_target, new_target)
    THEN LET s1 == [s EXCEPT !.current_target = Some(new_target)]
         IN  [state |-> s1,
              out |-> IF service_count(svcs) > 0
                      THEN IF IsSome(s.current_target)
                           THEN << send_target_change_notification(
                                      s1, Unwrap(s.current_target), new_target,
                                      svcs) >>
                           ELSE << send_target_start_notification(
                                      s1, new_target, svcs) >>
                      ELSE <<>>]
    ELSE [state |-> s, out |-> <<>>]

\* A faulty variant of handle_ts_targetstart: the rotation is left out.
handle_ts_targetstart_without_rotation(s, event, svcs) ==
    IF IsTargetStart(event.details)
    THEN LET d == Unwrap(event.details)
         IN  IF d.target_name = SEQUENTIAL_INSTRUCTION_SET
             THEN [state |-> s, out |-> <<>>]
             ELSE update_target(s,
                                TargetInfo(d.target_name, "TsTargetStart",
                                           Some(d.coordinates),
                                           Some(d.project_name),
                                           None),
                                svcs)
    ELSE [state |-> s, out |-> <<>>]

handle_ts_targetstart(s, event, svcs) ==
    IF IsTargetStart(event.details)
    THEN LET d == Unwrap(event.details)
         IN  IF d.target_name = SEQUENTIAL_INSTRUCTION_SET
             THEN [state |-> s, out |-> <<>>]
             ELSE update_target(s,
                                TargetInfo(d.target_name, "TsTargetStart",
                                           Some(d.coordinates),
                                           Some(d.project_name),
                                           Some(d.rotation)),
                                svcs)
    ELSE [state |-> s, out |-> <<>>]

\* handle_autofocus_finished from the return of get_last_autofocus (line 320)
\* on: autofocus is its outcome, Err, or Ok with the response's success flag.
\* A faulty variant of handle_autofocus_finished: the notification is sent
\* whatever the fetch returned.
handle_autofocus_finished_unchecked(s, svcs, autofocus) ==
    [state |-> s,
     out |-> <<Fetched("autofocus", autofocus)>>
             \o (IF autofocus.ok THEN <<>>
                 ELSE <<Logged("Failed to fetch autofocus data")>>)
             \o IF service_count(svcs) > 0
                THEN <<send_autofocus_notification(svcs)>>
                ELSE <<>>]

handle_autofocus_finished(s, svcs, autofocus) ==
    [state |-> s,
     out |-> <<Fetched("autofocus", autofocus)>>
             \o (IF autofocus.ok THEN <<>>
                 ELSE <<Logged("Failed to fetch autofocus data")>>)
             \o IF autofocus.ok /\ service_count(svcs) > 0 /\ autofocus.value
                THEN <<send_autofocus_notification(svcs)>>
                ELSE <<>>]

handle_mount_event(s, event, svcs) ==
    [state |-> s,
     out |-> IF service_count(svcs) > 0
             THEN <<send_mount_event_notification(s, event, svcs)>>
             ELSE <<>>]

\* A faulty variant of handle_generic_event: the notification waits for the
\* image cooldown.
handle_generic_event_gated(s, event, svcs) ==
    [state |-> s,
     out |-> IF /\ service_count(svcs) > 0
                /\ (s.last_image_time = None
                    \/ Unwrap(s.last_image_time) >= ImageCooldown)
             THEN send_generic_event_notification(event, svcs)
             ELSE <<>>]

handle_generic_event(s, event, svcs) ==
    [state |-> s,
     out |-> IF service_count(svcs) > 0
             THEN send_generic_event_notification(event, svcs)
             ELSE <<>>]

\* handle_event up to its first await: a notification, or the fetch of
\* handle_autofocus_finished.
handle_event(s, event, svcs) ==
    IF event.event = TS_TARGETSTART
    THEN handle_ts_targetstart(s, event, svcs)
    ELSE IF event.event = AUTOFOCUS_FINISHED
    THEN [state |-> s, out |-> <<Awaited("get_last_autofocus")>>]
    ELSE IF event.event \in {MOUNT_BEFORE_FLIP, MOUNT_AFTER_FLIP, MOUNT_PARKED}
    THEN handle_mount_event(s, event, svcs)
    ELSE IF event.event = IMAGE_SAVE
    THEN [state |-> s, out |-> <<>>]
    ELSE handle_generic_event(s, event, svcs)

\* A faulty variant of poll_events_item: the event is handled and not recorded
\* as seen.
poll_events_item_unrecorded(s, event, svcs) ==
    IF ~should_process_event(event)
    THEN [state |-> s, out |-> <<>>]
    ELSE LET r == has_seen_event(s, event)
             called == Called("has_seen_event", event_key(event), r.seen)
         IN  IF ~r.seen
             THEN LET h == handle_event(s, event, svcs)
                  IN  [state |-> h.state, out |-> <<called>> \o h.out]
             ELSE [state |-> r.state, out |-> <<called>>]

\* The body of the `for` loop of poll_events, for one event, up to the first
\* await of handle_event.
poll_events_item(s, event, svcs) ==
    IF ~should_process_event(event)
    THEN [state |-> s, out |-> <<>>]
    ELSE LET r == has_seen_event(s, event)
             called == Called("has_seen_event", event_key(event), r.seen)
         IN  IF ~r.seen
             THEN LET h == handle_event(r.state, event, svcs)
                  IN  [state |-> h.state, out |-> <<called>> \o h.out]
             ELSE [state |-> r.state, out |-> <<called>>]

\* A faulty variant of sequence_target_allowed: the TS-TARGETSTART override is
\* ignored.
sequence_target_allowed_always(target) == TRUE

\* "Only update target if we don't have a TS-TARGETSTART override".
sequence_target_allowed(target) ==
    IF IsSome(target) THEN Unwrap(target).source # "TsTargetStart" ELSE TRUE

\* A faulty variant of poll_sequence: a failed fetch clears the target, the
\* meridian flip time and the stored sequence.
poll_sequence_clearing(s, svcs, fetch) ==
    LET fetching == <<Fetched("sequence", fetch)>>
    IN  IF fetch.ok
        THEN LET new_sequence_target == extract_current_target(fetch.value)
                 s1 == [s EXCEPT
                          !.meridian_flip_time =
                              extract_meridian_flip_time(fetch.value),
                          !.sequence = Some(fetch.value)]
             IN  IF /\ sequence_target_allowed(s1.current_target)
                    /\ IsSome(new_sequence_target)
                 THEN LET u == update_target(
                                 s1,
                                 TargetInfo(Unwrap(new_sequence_target),
                                            "Sequence", None, None, None),
                                 svcs)
                      IN  [state |-> u.state, out |-> fetching \o u.out]
                 ELSE [state |-> s1, out |-> fetching]
        ELSE [state |-> [s EXCEPT !.current_target = None,
                                  !.meridian_flip_time = None,
                                  !.sequence = None],
              out |-> fetching
                      \o IF s.sequence = None
                         THEN <<Logged("Error fetching sequence (will retry silently)")>>
                         ELSE <<>>]

\* A faulty variant of poll_sequence: every failed fetch is logged.
poll_sequence_always_logging(s, svcs, fetch) ==
    LET fetching == <<Fetched("sequence", fetch)>>
    IN  IF fetch.ok
        THEN LET new_sequence_target == extract_current_target(fetch.value)
                 s1 == [s EXCEPT
                          !.meridian_flip_time =
                              extract_meridian_flip_time(fetch.value),
                          !.sequence = Some(fetch.value)]
             IN  IF /\ sequence_target_allowed(s1.current_target)
                    /\ IsSome(new_sequence_target)
                 THEN LET u == update_target(
                                 s1,
                                 TargetInfo(Unwrap(new_sequence_target),
                                            "Sequence", None, None, None),
                                 svcs)
                      IN  [state |-> u.state, out |-> fetching \o u.out]
                 ELSE [state |-> s1, out |-> fetching]
        ELSE [state |-> s,
              out |-> fetching
                      \o <<Logged("Error fetching sequence (will retry silently)")>>]

\* A faulty variant of poll_sequence: a sequence without a running target
\* clears the stored target.
poll_sequence_dropping_target(s, svcs, fetch) ==
    LET fetching == <<Fetched("sequence", fetch)>>
    IN  IF fetch.ok
        THEN LET new_sequence_target == extract_current_target(fetch.value)
                 s1 == [s EXCEPT
                          !.meridian_flip_time =
                              extract_meridian_flip_time(fetch.value),
                          !.sequence = Some(fetch.value)]
             IN  IF /\ sequence_target_allowed(s1.current_target)
                    /\ IsSome(new_sequence_target)
                 THEN LET u == update_target(
                                 s1,
                                 TargetInfo(Unwrap(new_sequence_target),
                                            "Sequence", None, None, None),
                                 svcs)
                      IN  [state |-> u.state, out |-> fetching \o u.out]
                 ELSE [state |-> IF IsSome(new_sequence_target) THEN s1
                                 ELSE [s1 EXCEPT !.current_target = None],
                       out |-> fetching]
        ELSE [state |-> s,
              out |-> fetching
                      \o IF s.sequence = None
                         THEN <<Logged("Error fetching sequence (will retry silently)")>>
                         ELSE <<>>]

poll_sequence(s, svcs, fetch) ==
    LET fetching == <<Fetched("sequence", fetch)>>
    IN  IF fetch.ok
        THEN LET new_sequence_target == extract_current_target(fetch.value)
                 s1 == [s EXCEPT
                          !.meridian_flip_time =
                              extract_meridian_flip_time(fetch.value),
                          !.sequence = Some(fetch.value)]
             IN  IF /\ sequence_target_allowed(s1.current_target)
                    /\ IsSome(new_sequence_target)
                 THEN LET u == update_target(
                                 s1,
                                 TargetInfo(Unwrap(new_sequence_target),
                                            "Sequence", None, None, None),
                                 svcs)
                      IN  [state |-> u.state, out |-> fetching \o u.out]
                 ELSE [state |-> s1, out |-> fetching]
        ELSE [state |-> s,
              out |-> fetching
                      \o IF s.sequence = None
                         THEN <<Logged("Error fetching sequence (will retry silently)")>>
                         ELSE <<>>]

\* An Instant is observable only through the time elapsed since it:
\* last_image_time is None or Some(e), e the time elapsed since the instant
\* it holds.  Elapsed times above ImageCooldown + 1 are kept as
\* ImageCooldown + 1.
MaxElapsed == ImageCooldown + 1

\* last_image_time after d more units of time.
Later(last_time, d) ==
    IF last_time = None THEN None
    ELSE Some(IF Unwrap(last_time) + d > MaxElapsed THEN MaxElapsed
              ELSE Unwrap(last_time) + d)

\* Instant::elapsed
elapsed(last_time) == Unwrap(last_time)

\* A faulty variant of should_send_now: the cooldown has to be exceeded.
should_send_now_strict(last_time) ==
    IF last_time = None THEN TRUE
    ELSE elapsed(last_time) > ImageCooldown

\* The send decision of handle_new_image.
should_send_now(last_time) ==
    IF last_time = None THEN TRUE
    ELSE elapsed(last_time) >= ImageCooldown

\* A faulty variant of handle_new_image: a suppressed image is not counted.
handle_new_image_uncounted(s, image, image_index, svcs, read_delay) ==
    IF should_send_now(s.last_image_time)
    THEN [state |-> s,
          out |-> << Decided(TRUE, s.last_image_time),
                     send_image_notification(s, image, image_index,
                                             s.skipped_images_count, svcs) >>,
          panicked |-> FALSE]
    ELSE [state |-> [s EXCEPT !.last_image_time = Later(@, read_delay)],
          out |-> << Decided(FALSE, s.last_image_time) >>,
          panicked |->
              ImageCooldown - (elapsed(s.last_image_time) + read_delay) < 0]

\* handle_new_image up to its await (lines 417-424), or to its end when the
\* image is suppressed (lines 433-440).  In the suppress branch the clock is
\* read again, read_delay after the reading of the decision, and the
\* Duration subtraction panics when the difference would be negative.
handle_new_image(s, image, image_index, svcs, read_delay) ==
    IF should_send_now(s.last_image_time)
    THEN [state |-> s,
          out |-> << Decided(TRUE, s.last_image_time),
                     send_image_notification(s, image, image_index,
                                             s.skipped_images_count, svcs) >>,
          panicked |-> FALSE]
    ELSE [state |-> [s EXCEPT !.skipped_images_count = @ + 1,
                              !.last_image_time = Later(@, read_delay)],
          out |-> << Decided(FALSE, s.last_image_time) >>,
          panicked |->
              ImageCooldown - (elapsed(s.last_image_time) + read_delay) < 0]

\* A faulty variant of handle_new_image_sent: last_image_time and
\* skipped_images_count are updated only when a channel has accepted the
\* notification.
handle_new_image_on_success(s, sent) ==
    IF \E i \in 1 .. Len(sent.attempts) : sent.attempts[i].ok
    THEN [s EXCEPT !.last_image_time = Some(0), !.skipped_images_count = 0]
    ELSE s

\* A faulty variant of handle_new_image_sent: a send leaves last_image_time
\* as it is.
handle_new_image_unstamped(s, sent) == [s EXCEPT !.skipped_images_count = 0]

\* A faulty variant of handle_new_image_sent: a send leaves
\* skipped_images_count as it is.
handle_new_image_keep_count(s, sent) == [s EXCEPT !.last_image_time = Some(0)]

\* handle_new_image after send_image_notification has returned `sent`, which
\* it does not look at (lines 425-432): last_image_time is set to
\* Instant::now() and the counter to 0.
handle_new_image_sent(s, sent) ==
    [s EXCEPT !.last_image_time = Some(0), !.skipped_images_count = 0]

\* The body of the `for` loop of poll_images, for one image, up to the await
\* of handle_new_image.
\* A faulty variant of poll_images_item: a new image is handled whether or not
\* a service is registered.
poll_images_item_ungated(s, image, image_index, svcs, read_delay) ==
    LET r == has_seen_image(s, image)
        called == Called("has_seen_image", image_key(image), r.seen)
    IN  IF ~r.seen
        THEN LET h == handle_new_image(r.state, image, image_index, svcs,
                                       read_delay)
             IN  [h EXCEPT !.out = <<called>> \o @]
        ELSE [state |-> r.state, out |-> <<called>>, panicked |-> FALSE]

poll_images_item(s, image, image_index, svcs, read_delay) ==
    LET r == has_seen_image(s, image)
        called == Called("has_seen_image", image_key(image), r.seen)
    IN  IF ~r.seen /\ service_count(svcs) > 0
        THEN LET h == handle_new_image(r.state, image, image_index, svcs,
                                       read_delay)
             IN  [h EXCEPT !.out = <<called>> \o @]
        ELSE [state |-> r.state, out |-> <<called>>, panicked |-> FALSE]

\* A faulty variant of baseline_events_loop: among equal times the last
\* announcement is kept.
RECURSIVE baseline_events_loop_last_wins(_, _, _)
baseline_events_loop_last_wins(events, seen, latest_ts_target) ==
    IF events = <<>>
    THEN [events_seen |-> seen, latest_ts_target |-> latest_ts_target]
    ELSE LET event == Head(events)
             d == Unwrap(event.details)
         IN  IF is_redundant_filterwheel_event(event)
             THEN baseline_events_loop_last_wins(Tail(events), seen, latest_ts_target)
             ELSE baseline_events_loop_last_wins(
                    Tail(events),
                    seen \cup {event_key(event)},
                    IF /\ event.event = TS_TARGETSTART
                       /\ IsTargetStart(event.details)
                       /\ d.target_name # SEQUENTIAL_INSTRUCTION_SET
                       /\ \/ latest_ts_target = None
                          \/ ~StringLess(event.time, Unwrap(latest_ts_target)[1])
                    THEN Some(<<event.time,
                                TargetInfo(d.target_name, "TsTargetStart",
                                           Some(d.coordinates),
                                           Some(d.project_name),
                                           Some(d.rotation))>>)
                    ELSE latest_ts_target)

\* The loop of process_baseline_events: the keys inserted and the latest
\* TS-TARGETSTART seen so far, as (time, target).
RECURSIVE baseline_events_loop(_, _, _)
baseline_events_loop(events, seen, latest_ts_target) ==
    IF events = <<>>
    THEN [events_seen |-> seen, latest_ts_target |-> latest_ts_target]
    ELSE LET event == Head(events)
             d == Unwrap(event.details)
         IN  IF is_redundant_filterwheel_event(event)
             THEN baseline_events_loop(Tail(events), seen, latest_ts_target)
             ELSE baseline_events_loop(
                    Tail(events),
                    seen \cup {event_key(event)},
                    IF /\ event.event = TS_TARGETSTART
                       /\ IsTargetStart(event.details)
                       /\ d.target_name # SEQUENTIAL_INSTRUCTION_SET
                       /\ \/ latest_ts_target = None
                          \/ StringLess(Unwrap(latest_ts_target)[1], event.time)
                    THEN Some(<<event.time,
                                TargetInfo(d.target_name, "TsTargetStart",
                                           Some(d.coordinates),
                                           Some(d.project_name),
                                           Some(d.rotation))>>)
                    ELSE latest_ts_target)

process_baseline_events(s, events) ==
    LET r == baseline_events_loop(events, s.events_seen, None)
    IN  [s EXCEPT !.events_seen = r.events_seen,
                  !.current_target =
                      IF IsSome(r.latest_ts_target)
                      THEN Some(Unwrap(r.latest_ts_target)[2]) ELSE @]

\* The sequence part of initialize_baseline (lines 130-151).
baseline_sequence(s, fetch) ==
    IF fetch.ok
    THEN LET target == extract_current_target(fetch.value)
         IN  [s EXCEPT
                !.meridian_flip_time = extract_meridian_flip_time(fetch.value),
                !.current_target =
                    IF s.current_target = None /\ IsSome(target)
                    THEN Some(TargetInfo(Unwrap(target), "Sequence",
                                         None, None, None))
                    ELSE @,
                !.sequence = Some(fetch.value)]
    ELSE s

\* A faulty variant of baseline_images: the baseline images are not recorded.
baseline_images_forgotten(s, images) == s

\* The image loop of initialize_baseline (lines 155-159).
baseline_images(s, images) ==
    [s EXCEPT !.images_seen =
                  @ \cup { image_key(images[i]) : i \in 1..Len(images) }]

\* A faulty variant of baseline_notifications: the initial target is announced like a
\* target found by a tick.
baseline_notifications_with_target(s, svcs) ==
    IF service_count(svcs) > 0
    THEN (IF IsSome(s.current_target)
          THEN <<send_target_start_notification(s, Unwrap(s.current_target),
                                                svcs)>>
          ELSE <<>>)
         \o <<send_welcome_message(s, svcs)>>
    ELSE <<>>

\* What initialize_baseline dispatches (lines 173-176).
baseline_notifications(s, svcs) ==
    IF service_count(svcs) > 0
    THEN <<send_welcome_message(s, svcs)>>
    ELSE <<>>

-----------------------------------------------------------------------------
(* Library calls checked on their own.                                     *)

NoCall == [fn |-> "none"]

NoRemote == [events |-> {}, images |-> {}, sequences |-> {}]

\* The history of a run: the events and images of the baseline fetches (None
\* until both have returned Ok), the keys has_seen_event and
\* has_seen_image have been called with, the number of new images
\* handle_new_image has left undispatched since the last image notification,
\* the phases of the current tick that have dispatched a notification,
\* whether poll_sequence has logged a failed fetch since its last successful
\* fetch, and the time elapsed since the dispatch of the last image
\* notification returned (None before the first one).
NoHistory ==
    [baseline |-> None, queried |-> {}, suppressed |-> 0, dispatched |-> {},
     sequence_error_logged |-> FALSE, image_sent |-> None]

IsCall(e) == e.effect \in {"has_seen_event", "has_seen_image"}

IsImageDispatch(e) ==
    e.effect = "dispatch" /\ e.message.title = "New Frame Captured"

IsImageSent(e) ==
    e.effect = "sent" /\ e.message.title = "New Frame Captured"

IsSuppression(e) == e.effect = "handle_new_image" /\ ~e.should_send

\* The history after a step with effects o.
Recorded(h, o) ==
    LET effects == Range(o)
    IN  [h EXCEPT
           !.queried = @ \cup { e.key : e \in {c \in effects : IsCall(c)} },
           !.suppressed =
               IF \E e \in effects : IsImageDispatch(e) THEN 0
               ELSE IF \E e \in effects : IsSuppression(e) THEN @ + 1
               ELSE @,
           !.image_sent =
               IF \E e \in effects : IsImageSent(e) THEN Some(0) ELSE @]

\* The history after d more units of time.
Aged(h, d) == [h EXCEPT !.image_sent = Later(@, d)]

\* The history after a step of the given phase of a tick with effects o.
Phased(h, phase, o) ==
    LET effects == Range(o)
    IN  [h EXCEPT
           !.dispatched =
               IF \E e \in effects : e.effect = "dispatch"
               THEN @ \cup {phase} ELSE @,
           !.sequence_error_logged =
               IF phase # "sequence" THEN @
               ELSE IF \E e \in effects : e.effect = "fetch" /\ e.response.ok
                    THEN FALSE
               ELSE @ \/ \E e \in effects : e.effect = "log"]

Idle ==
    /\ pc = "idle"
    /\ services = <<>>
    /\ events_seen = {}
    /\ images_seen = {}
    /\ current_target = None
    /\ meridian_flip_time = None
    /\ sequence = None
    /\ last_image_time = None
    /\ skipped_images_count = 0
    /\ remote = NoRemote
    /\ fetched = <<>>
    /\ index = 0
    /\ out = <<>>
    /\ history = NoHistory

monitor_vars ==
    <<pc, services, events_seen, images_seen, current_target,
      meridian_flip_time, sequence, last_image_time, skipped_images_count,
      remote, fetched, index, out, history>>

InitResolver ==
    /\ Idle
    /\ call \in { [fn |-> "extract_current_target", response |-> t] :
                    t \in SequenceTrees(MaxNodes) \cup SingleContainers }
    /\ ret = None

ExtractCurrentTarget ==
    /\ call.fn = "extract_current_target"
    /\ ret = None
    /\ ret' = Some(extract_current_target(call.response))
    /\ UNCHANGED <<call, monitor_vars>>

NextResolver == ExtractCurrentTarget

SpecResolver == InitResolver /\ [][NextResolver]_vars

\* The registered services: any number of distinct channels, in any order.
ServiceLists ==
    UNION { { f \in [1..n -> 1..MaxChannels] :
                \A i, j \in 1..n : f[i] = f[j] => i = j } : n \in 0..MaxChannels }


\* The events and images the fingerprints are computed of: time, event and
\* the other fields are Strings, which may hold any character.
EventRecords ==
    { Event(time, event, details) :
        time \in {<<"1">>, <<"1", "|", "A">>},
        event \in {"A", "B", "A|B"},
        details \in {None,
                     Some(FilterWheelChange(FilterInfo("HA", 0),
                                            FilterInfo("HA", 0)))} }

ImageRecords ==
    { ImageMetadata(date, camera_name, image_type) :
        date \in {"d1", "d1|ASI"},
        camera_name \in {"ASI", "Z", "ASI|Z"},
        image_type \in {"LIGHT", "DARK"} }

InitKeys ==
    /\ Idle
    /\ \/ \E a, b \in EventRecords : call = [fn |-> "event_key", a |-> a, b |-> b]
       \/ \E a, b \in ImageRecords : call = [fn |-> "image_key", a |-> a, b |-> b]
    /\ ret = None

\* UpdaterState::event_key on each of two events.
EventKey ==
    /\ call.fn = "event_key"
    /\ ret = None
    /\ ret' = Some(<<event_key(call.a), event_key(call.b)>>)
    /\ UNCHANGED <<call, monitor_vars>>

\* UpdaterState::image_key on each of two images.
ImageKey ==
    /\ call.fn = "image_key"
    /\ ret = None
    /\ ret' = Some(<<image_key(call.a), image_key(call.b)>>)
    /\ UNCHANGED <<call, monitor_vars>>

NextKeys == EventKey \/ ImageKey

SpecKeys == InitKeys /\ [][NextKeys]_vars

\* ChatServiceManager::send_message and send_message_with_image, one action
\* per suspension point.  A registered service is a DiscordChatService,
\* whose requests go through a client built with a timeout (discord.rs
\* 188-190), or another ChatService (MatrixChatService, or any implementation
\* of the trait), for whose send the repository sets no bound.  What a send
\* meets is the channel's answer: Ok, Err, or no answer at all.  The call is
\* held in `call`, the thumbnail fetch it has made in `fetched`, the loop
\* variable in `index` and the attempts made in `out`.
ChannelKinds == {"discord", "other"}

ChannelAnswers == {"ok", "err", "none"}

\* The variables of the monitor a send leaves alone.
unsent_vars ==
    <<services, events_seen, images_seen, current_target, meridian_flip_time,
      sequence, last_image_time, skipped_images_count, remote, history>>

\* A dispatcher with the given call, about to run.
Dispatcher(at) ==
    /\ pc = at
    /\ index = 0
    /\ out = <<>>
    /\ services = <<>>
    /\ events_seen = {}
    /\ images_seen = {}
    /\ current_target = None
    /\ meridian_flip_time = None
    /\ sequence = None
    /\ last_image_time = None
    /\ skipped_images_count = 0
    /\ remote = NoRemote
    /\ fetched = <<>>
    /\ history = NoHistory
    /\ ret = None

\* send_message or send_message_with_image is called on a manager with any
\* services, each of which answers Ok or Err.
InitDispatch ==
    \E svcs \in ServiceLists : \E failing \in SUBSET Range(svcs) :
        LET answers == [i \in 1..Len(svcs) |->
                           IF svcs[i] \in failing THEN "err" ELSE "ok"]
            kinds == [i \in 1..Len(svcs) |-> "other"]
        IN  \/ /\ Dispatcher("send_loop")
               /\ call = [fn |-> "send_message", services |-> svcs,
                          kinds |-> kinds, answers |-> answers,
                          failing |-> failing]
            \/ /\ Dispatcher("get_thumbnail")
               /\ \E thumbnail_ok \in BOOLEAN :
                    call = [fn |-> "send_message_with_image", services |-> svcs,
                            kinds |-> kinds, answers |-> answers,
                            failing |-> failing, thumbnail_ok |-> thumbnail_ok]

InitSend ==
    /\ Dispatcher("send_loop")
    /\ \E n \in 0..MaxChannels :
         \E kinds \in [1..n -> ChannelKinds], answers \in [1..n -> ChannelAnswers] :
           call = [fn |-> "send_message", services |-> [i \in 1..n |-> i],
                   kinds |-> kinds, answers |-> answers,
                   failing |-> { i \in 1..n : answers[i] # "ok" }]

\* The attempts of the loop carry the thumbnail when it has been fetched.
Attachment == fetched # <<>> /\ fetched[1].response.ok

\* A faulty variant of GetThumbnailReturns: a failed thumbnail fetch ends
\* the call.
GetThumbnailReturnsNoFallback ==
    /\ pc = "get_thumbnail"
    /\ fetched' = <<Fetched("thumbnail",
                            IF call.thumbnail_ok THEN Ok("data") ELSE Err)>>
    /\ IF call.thumbnail_ok
       THEN pc' = "send_loop" /\ ret' = ret
       ELSE /\ pc' = "returned"
            /\ ret' = Some([returned |-> TRUE, thumbnail_fetches |-> 1,
                            attempts |-> <<>>])
    /\ UNCHANGED <<index, out, call, unsent_vars>>

\* `client.get_thumbnail(image_index).await` of send_message_with_image
\* returns (chat/mod.rs 146): the loop over the services follows, with the
\* thumbnail (148-149) or, through send_message, without it (162-168).
GetThumbnailReturns ==
    /\ pc = "get_thumbnail"
    /\ fetched' = <<Fetched("thumbnail",
                            IF call.thumbnail_ok THEN Ok("data") ELSE Err)>>
    /\ pc' = "send_loop"
    /\ UNCHANGED <<index, out, call, ret, unsent_vars>>

\* The send of the next service of the loop is called (chat/mod.rs 129 and
\* 150-152).
AwaitSend ==
    /\ pc = "send_loop"
    /\ index < Len(call.services)
    /\ pc' = "awaiting"
    /\ UNCHANGED <<index, out, call, ret, fetched, unsent_vars>>

\* A faulty variant of SendCompletes: an Err ends the loop (as `?` would).
SendCompletesUntilError ==
    /\ pc = "awaiting"
    /\ call.answers[index + 1] # "none"
    /\ out' = Append(out, Attempt(call.services[index + 1], call.failing,
                                  Attachment))
    /\ index' = IF call.answers[index + 1] = "err" THEN Len(call.services)
                ELSE index + 1
    /\ pc' = "send_loop"
    /\ UNCHANGED <<call, ret, fetched, unsent_vars>>

\* The channel has answered: `.await` returns Ok or Err, and the loop goes on.
SendCompletes ==
    /\ pc = "awaiting"
    /\ call.answers[index + 1] # "none"
    /\ out' = Append(out, Attempt(call.services[index + 1], call.failing,
                                  Attachment))
    /\ index' = index + 1
    /\ pc' = "send_loop"
    /\ UNCHANGED <<call, ret, fetched, unsent_vars>>

\* The channel has not answered and the timeout of the Discord client ends
\* the request: `.await` returns Err, and the loop goes on.
RequestTimesOut ==
    /\ pc = "awaiting"
    /\ call.answers[index + 1] = "none"
    /\ call.kinds[index + 1] = "discord"
    /\ out' = Append(out, Attempt(call.services[index + 1], call.failing,
                                  Attachment))
    /\ index' = index + 1
    /\ pc' = "send_loop"
    /\ UNCHANGED <<call, ret, fetched, unsent_vars>>

\* The loop is over and the call returns to its caller.
SendMessageReturns ==
    /\ pc = "send_loop"
    /\ index = Len(call.services)
    /\ pc' = "returned"
    /\ ret' = Some([returned |-> TRUE, thumbnail_fetches |-> Len(fetched),
                    attempts |-> out])
    /\ UNCHANGED <<index, out, call, fetched, unsent_vars>>

NextDispatch ==
    \/ GetThumbnailReturns
    \/ AwaitSend
    \/ SendCompletes
    \/ SendMessageReturns

SpecDispatch == InitDispatch /\ [][NextDispatch]_vars

NextSend == AwaitSend \/ SendCompletes \/ RequestTimesOut \/ SendMessageReturns

\* The executor runs the task whenever it can make a step: an answer that has
\* come, or a timeout that has run out, resumes the loop.
SpecSend == InitSend /\ [][NextSend]_vars /\ WF_vars(NextSend)

-----------------------------------------------------------------------------
(* chat_updater.rs: start_polling.  The task of the monitor is the only    *)
(* code that touches its UpdaterState, and it gives up control at its      *)
(* awaits only.  A state of Spec is the monitor suspended at an await (or  *)
(* at the head of the item loop of poll_events or poll_images), `pc` naming *)
(* the await and `call` the call awaited; an action is the return of that  *)
(* await followed by the code up to the next await.  The awaits inside     *)
(* the send_*_notification methods are states too: get_mount_info of       *)
(* add_mount_info ("add_mount_info"), the thumbnail fetch of               *)
(* ChatServiceManager::send_message_with_image ("get_thumbnail") and the   *)
(* send of each registered service in turn ("send_message", the attempts   *)
(* made so far in call.attempts).  What is written after an await is       *)
(* written by the action of its return: the monitor can stand at every     *)
(* await with the writes before it done and those after it not done.       *)

SetState(s) ==
    /\ events_seen' = s.events_seen
    /\ images_seen' = s.images_seen
    /\ current_target' = s.current_target
    /\ meridian_flip_time' = s.meridian_flip_time
    /\ sequence' = s.sequence
    /\ last_image_time' = s.last_image_time
    /\ skipped_images_count' = s.skipped_images_count

state_vars ==
    <<events_seen, images_seen, current_target, meridian_flip_time, sequence,
      last_image_time, skipped_images_count>>

\* The outcomes of a fetch whose successful responses are S.
Fetches(S) == {Err} \cup { Ok(x) : x \in S }

\* ChatUpdater::new(..).with_chat_manager(..): an empty UpdaterState and the
\* services registered by the caller.
Init ==
    /\ pc = "start"
    /\ services \in { [i \in 1..n |-> i] : n \in 0..MaxServices }
    /\ remote \in RemoteProfiles
    /\ events_seen = UpdaterState_new.events_seen
    /\ images_seen = UpdaterState_new.images_seen
    /\ current_target = UpdaterState_new.current_target
    /\ meridian_flip_time = UpdaterState_new.meridian_flip_time
    /\ sequence = UpdaterState_new.sequence
    /\ last_image_time = UpdaterState_new.last_image_time
    /\ skipped_images_count = UpdaterState_new.skipped_images_count
    /\ fetched = <<>>
    /\ index = 0
    /\ out = <<>>
    /\ history = NoHistory
    /\ call = NoCall
    /\ ret = None

EventFetches == Fetches(Histories(remote.events, MaxBatch))

ImageFetches == Fetches(Histories(remote.images, MaxBatch))

SequenceFetches == Fetches(remote.sequences)

\* What the step that has run with effects o is suspended at: the call of a
\* send_*_notification method, which awaits get_mount_info when the
\* notification carries the mount's position, the thumbnail fetch for an
\* image and the send of the first service otherwise, the fetch of
\* handle_autofocus_finished, or nothing.
Suspends(o) == o # <<>> /\ o[Len(o)].effect \in {"dispatch", "await"}

Suspend(o, from) ==
    LET e == o[Len(o)]
    IN  IF e.effect = "dispatch"
        THEN /\ pc' = IF e.mount_info_fetches > 0 THEN "add_mount_info"
                      ELSE IF IsImageDispatch(e) THEN "get_thumbnail"
                      ELSE "send_message"
             /\ call' = [fn |-> "send_notification", message |-> e.message,
                         from |-> from, thumbnail |-> None,
                         attempts |-> <<>>]
        ELSE /\ pc' = "get_last_autofocus"
             /\ call' = [fn |-> e.fn, from |-> from]

\* A faulty variant of Resume: the event phase is left out.
Resume_skipping_events(from) ==
    /\ call' = NoCall
    /\ IF from = "baseline_images"
       THEN pc' = "poll_sequence" /\ fetched' = <<>> /\ index' = 0
       ELSE IF from = "poll_sequence"
       THEN pc' = "poll_images" /\ fetched' = fetched /\ index' = index
       ELSE IF index + 1 < Len(fetched)
       THEN pc' = from /\ fetched' = fetched /\ index' = index + 1
       ELSE /\ pc' = IF from = "poll_events_loop" THEN "poll_images" ELSE "sleep"
            /\ fetched' = <<>>
            /\ index' = 0

\* The step that runs when the handler called at `from` has returned:
\* initialize_baseline returns to the loop of start_polling (lines 114-119),
\* poll_sequence is followed by poll_events, and an item of the loop of
\* poll_events or poll_images by the next item, or by the next phase after the
\* last one.
Resume(from) ==
    /\ call' = NoCall
    /\ IF from = "baseline_images"
       THEN pc' = "poll_sequence" /\ fetched' = <<>> /\ index' = 0
       ELSE IF from = "poll_sequence"
       THEN pc' = "poll_events" /\ fetched' = fetched /\ index' = index
       ELSE IF index + 1 < Len(fetched)
       THEN pc' = from /\ fetched' = fetched /\ index' = index + 1
       ELSE /\ pc' = IF from = "poll_events_loop" THEN "poll_images" ELSE "sleep"
            /\ fetched' = <<>>
            /\ index' = 0

\* The handler called at `from` has run with effects o: it is suspended at
\* its await, or has returned.
Proceed(o, from) ==
    IF Suspends(o)
    THEN Suspend(o, from) /\ fetched' = fetched /\ index' = index
    ELSE Resume(from)

\* get_event_history of initialize_baseline returns (line 126): on Err the
\* `?` returns it to start_polling, which logs it and ends (lines 109-112);
\* on Ok process_baseline_events runs and get_sequence is called.  The events
\* read are held in `fetched`.
BaselineEvents ==
    /\ pc = "start"
    /\ \E events \in EventFetches :
         IF events.ok
         THEN /\ SetState(process_baseline_events(State, events.value))
              /\ fetched' = events.value
              /\ out' = <<Fetched("event_history", events)>>
              /\ pc' = "baseline_sequence"
         ELSE /\ UNCHANGED state_vars
              /\ fetched' = fetched
              /\ out' = << Fetched("event_history", events),
                           Logged("Failed to initialize baseline") >>
              /\ pc' = "stopped"
    /\ UNCHANGED <<services, remote, index, history, call, ret>>

\* get_sequence of initialize_baseline returns (lines 130-151), and
\* get_all_image_history is called.
BaselineSequence ==
    /\ pc = "baseline_sequence"
    /\ \E fetch \in SequenceFetches :
         /\ SetState(baseline_sequence(State, fetch))
         /\ out' = <<Fetched("sequence", fetch)>>
                   \o IF fetch.ok THEN <<>>
                      ELSE <<Logged("Could not load sequence during initialization")>>
    /\ pc' = "baseline_images"
    /\ UNCHANGED <<services, remote, fetched, index, history, call, ret>>

\* get_all_image_history of initialize_baseline returns (lines 154-176): on
\* Err start_polling logs it and ends; on Ok the images are recorded, and the
\* welcome message is called or, without a service, the loop of start_polling
\* is entered.
BaselineImages ==
    /\ pc = "baseline_images"
    /\ \E images \in ImageFetches :
         IF images.ok
         THEN LET s3 == baseline_images(State, images.value)
                  o == <<Fetched("image_history", images)>>
                       \o baseline_notifications(s3, services)
              IN  /\ SetState(s3)
                  /\ out' = o
                  /\ history' = [history EXCEPT !.baseline =
                                    Some([events |-> Range(fetched),
                                          images |-> Range(images.value)])]
                  /\ Proceed(o, pc)
         ELSE /\ UNCHANGED <<state_vars, fetched, index, history, call>>
              /\ out' = << Fetched("image_history", images),
                           Logged("Failed to initialize baseline") >>
              /\ pc' = "stopped"
    /\ UNCHANGED <<services, remote, ret>>

\* get_sequence of poll_sequence returns (line 345): the state is updated and
\* a change of target is announced (lines 383, 385).
PollSequence ==
    /\ pc = "poll_sequence"
    /\ \E fetch \in SequenceFetches :
         LET r == poll_sequence(State, services, fetch)
         IN  /\ SetState(r.state)
             /\ out' = r.out
             /\ history' = Phased(history, "sequence", r.out)
             /\ Proceed(r.out, pc)
    /\ UNCHANGED <<services, remote, ret>>

\* A faulty variant of FetchEvents: a failed fetch ends the tick.
FetchEvents_ending_tick ==
    /\ pc = "poll_events"
    /\ \E fetch \in EventFetches :
         IF fetch.ok /\ fetch.value # <<>>
         THEN /\ fetched' = fetch.value
              /\ pc' = "poll_events_loop"
              /\ out' = <<>>
         ELSE /\ fetched' = <<>>
              /\ pc' = IF fetch.ok THEN "poll_images" ELSE "sleep"
              /\ out' = IF fetch.ok THEN <<>>
                        ELSE <<Logged("Error fetching events")>>
    /\ index' = 0
    /\ UNCHANGED <<state_vars, services, remote, history, call, ret>>

\* get_event_history of poll_events returns (line 234): on Err the log line,
\* on Ok the loop.
FetchEvents ==
    /\ pc = "poll_events"
    /\ \E fetch \in EventFetches :
         IF fetch.ok /\ fetch.value # <<>>
         THEN /\ fetched' = fetch.value
              /\ pc' = "poll_events_loop"
              /\ out' = <<>>
         ELSE /\ fetched' = <<>>
              /\ pc' = "poll_images"
              /\ out' = IF fetch.ok THEN <<>>
                        ELSE <<Logged("Error fetching events")>>
    /\ index' = 0
    /\ UNCHANGED <<state_vars, services, remote, history, call, ret>>

\* The values of an input of a step: those of S when the step reads the
\* input, and a single one when it does not.
Input(read, S, unread) == IF read THEN S ELSE {unread}

\* One iteration of the loop of poll_events, on fetched[index + 1], up to
\* the first await of handle_event (lines 240-243).
ProcessEvent ==
    /\ pc = "poll_events_loop"
    /\ LET r == poll_events_item(State, fetched[index + 1], services)
       IN  /\ SetState(r.state)
           /\ out' = r.out
           /\ history' = Phased(Recorded(history, r.out), "events", r.out)
           /\ Proceed(r.out, pc)
    /\ UNCHANGED <<services, remote, ret>>

\* get_last_autofocus of handle_autofocus_finished returns (line 320).
GetLastAutofocusReturns ==
    /\ pc = "get_last_autofocus"
    /\ \E autofocus \in {Err, Ok(TRUE), Ok(FALSE)} :
         LET r == handle_autofocus_finished(State, services, autofocus)
         IN  /\ SetState(r.state)
             /\ out' = r.out
             /\ history' = Phased(Recorded(history, r.out), "events", r.out)
             /\ Proceed(r.out, call.from)
    /\ UNCHANGED <<services, remote, ret>>

\* get_all_image_history of poll_images returns (line 400).
FetchImages ==
    /\ pc = "poll_images"
    /\ \E fetch \in ImageFetches :
         IF fetch.ok /\ fetch.value # <<>>
         THEN /\ fetched' = fetch.value
              /\ pc' = "poll_images_loop"
              /\ out' = <<>>
         ELSE /\ fetched' = <<>>
              /\ pc' = "sleep"
              /\ out' = IF fetch.ok THEN <<>>
                        ELSE <<Logged("Error fetching images")>>
    /\ index' = 0
    /\ UNCHANGED <<state_vars, services, remote, history, call, ret>>

\* One iteration of the loop of poll_images, on fetched[index + 1], `delay`
\* after the step before it, up to the await of handle_new_image (lines
\* 402-407 and 417-424); a panic in handle_new_image ends the monitor.
ProcessImage ==
    /\ pc = "poll_images_loop"
    /\ \E delay \in 0..MaxDelay :
         LET s == [State EXCEPT !.last_image_time = Later(@, delay)]
             sends == should_send_now(s.last_image_time)
         IN  \E read_delay \in Input(~sends, 0..MaxDelay, 0) :
         LET r == poll_images_item(s, fetched[index + 1], index, services,
                                   read_delay)
         IN  /\ SetState(r.state)
             /\ out' = r.out
             /\ history' =
                  LET passed ==
                          IF \E e \in Range(r.out) : IsSuppression(e)
                          THEN delay + read_delay ELSE delay
                  IN  Phased(Recorded(Aged(history, passed), r.out),
                             "images", r.out)
             /\ IF r.panicked
                THEN /\ pc' = "panicked"
                     /\ UNCHANGED <<fetched, index, call>>
                ELSE Proceed(r.out, pc)
    /\ UNCHANGED <<services, remote, ret>>

\* get_mount_info of add_mount_info returns (line 809), and the send of the
\* ChatServiceManager is called with the message.  The fields the answer adds
\* to the message when the mount is connected (Ok(TRUE)) are not part of the
\* message modelled.
GetMountInfoReturns ==
    /\ pc = "add_mount_info"
    /\ pc' = "send_message"
    /\ \E response \in {Err, Ok(TRUE), Ok(FALSE)} :
         out' = <<Fetched("mount_info", response)>>
    /\ UNCHANGED <<state_vars, services, remote, fetched, index, history,
                   call, ret>>

\* `client.get_thumbnail(image_index).await` of
\* ChatServiceManager::send_message_with_image returns (chat/mod.rs 146),
\* called by send_image_notification (line 790): the loop over the services
\* follows, with the thumbnail (148-152) or, through send_message, without
\* it (162-168).
ImageThumbnailReturns ==
    /\ pc = "get_thumbnail"
    /\ pc' = "send_message"
    /\ \E thumbnail_ok \in BOOLEAN :
         /\ call' = [call EXCEPT !.thumbnail = Some(thumbnail_ok)]
         /\ out' = <<Fetched("thumbnail",
                             IF thumbnail_ok THEN Ok("data") ELSE Err)>>
    /\ UNCHANGED <<state_vars, services, remote, fetched, index, history, ret>>

\* What the ChatServiceManager can return for the notification of `call`:
\* send_message_with_image for an image (line 790), send_message for the
\* others.
NotificationResults ==
    IF call.from = "poll_images_loop"
    THEN { send_message_with_image(services, failing, thumbnail_ok) :
             failing \in SUBSET Range(services), thumbnail_ok \in BOOLEAN }
    ELSE { send_message(services, failing) :
             failing \in SUBSET Range(services) }

\* The service of the loop of the ChatServiceManager whose send is awaited
\* (chat/mod.rs 129, 150-152).
AwaitedService == services[Len(call.attempts) + 1]

\* The awaited send is that of the last service: when it returns the loop
\* is over, and the ChatServiceManager and the send_*_notification method
\* return.
LastService == pc = "send_message" /\ Len(call.attempts) + 1 = Len(services)

\* What the ChatServiceManager returns when the loop has made `attempts`.
NotificationResult(attempts) ==
    [returned |-> TRUE,
     thumbnail_fetches |-> IF IsSome(call.thumbnail) THEN 1 ELSE 0,
     attempts |-> attempts]

\* The send of one service returns Ok or Err (chat/mod.rs 129, 150-152): the
\* loop goes on to the next service.  After the last service the
\* ChatServiceManager returns, and with it the send_*_notification method:
\* handle_new_image stamps the send (lines 425-432), and the handler that
\* has called returns.
ServiceSendReturns ==
    /\ pc = "send_message"
    /\ \E failing \in SUBSET {AwaitedService} :
         LET attempts == Append(call.attempts,
                                Attempt(AwaitedService, failing,
                                        call.thumbnail = Some(TRUE)))
             sent == NotificationResult(attempts)
         IN  IF LastService
             THEN /\ SetState(IF call.from = "poll_images_loop"
                              THEN handle_new_image_sent(State, sent)
                              ELSE State)
                  /\ out' = <<Sent(call.message, sent)>>
                  /\ history' = Recorded(history, out')
                  /\ Resume(call.from)
             ELSE /\ call' = [call EXCEPT !.attempts = attempts]
                  /\ out' = <<Attempted(attempts[Len(attempts)])>>
                  /\ UNCHANGED <<state_vars, pc, fetched, index, history>>
    /\ UNCHANGED <<services, remote, ret>>

\* sleep(poll_interval).await
Sleep ==
    /\ pc = "sleep"
    /\ last_image_time' = Later(last_image_time, PollInterval)
    /\ pc' = "poll_sequence"
    /\ out' = <<>>
    /\ history' = [Aged(history, PollInterval) EXCEPT !.dispatched = {}]
    /\ UNCHANGED <<events_seen, images_seen, current_target, meridian_flip_time,
                   sequence, skipped_images_count, services, remote, fetched,
                   index, call, ret>>

Next ==
    \/ BaselineEvents
    \/ BaselineSequence
    \/ BaselineImages
    \/ PollSequence
    \/ FetchEvents
    \/ ProcessEvent
    \/ GetLastAutofocusReturns
    \/ FetchImages
    \/ ProcessImage
    \/ GetMountInfoReturns
    \/ ImageThumbnailReturns
    \/ ServiceSendReturns
    \/ Sleep

Spec == Init /\ [][Next]_vars

-----------------------------------------------------------------------------
(* service_wrapper.rs: ServiceWrapper::run_cli up to start_polling.        *)

\* str::starts_with
StartsWith(s, prefix) ==
    /\ Len(prefix) <= Len(s)
    /\ SubSeq(s, 1, Len(prefix)) = prefix

DiscordWebhookPrefix ==
    <<"h", "t", "t", "p", "s", ":", "/", "/", "d", "i", "s", "c", "o",
      "r", "d", ".", "c", "o", "m", "/", "a", "p", "i", "/", "w", "e",
      "b", "h", "o", "o", "k", "s", "/">>

DiscordappWebhookPrefix ==
    <<"h", "t", "t", "p", "s", ":", "/", "/", "d", "i", "s", "c", "o",
      "r", "d", "a", "p", "p", ".", "c", "o", "m", "/", "a", "p", "i",
      "/", "w", "e", "b", "h", "o", "o", "k", "s", "/">>

\* DiscordWebhook::new and DiscordChatService::new: the URL is validated, then
\* the HTTP client is built.
DiscordChatService_new(webhook_url, client_builds) ==
    IF /\ ~StartsWith(webhook_url, DiscordWebhookPrefix)
       /\ ~StartsWith(webhook_url, DiscordappWebhookPrefix)
    THEN Err
    ELSE IF client_builds THEN Ok("Discord") ELSE Err

\* MatrixChatService::new: `outcome` is where the homeserver lets it get to;
\* the URL parse, the client, the login and each sync return early with `?`.
MatrixChatService_new(outcome) == IF outcome = "ok" THEN Ok("Matrix") ELSE Err

\* The channels of the configuration in the order run_cli constructs them,
\* each with the result of its constructor; a channel that is absent or not
\* enabled is not constructed.
Constructions(config) ==
    (IF IsSome(config.discord) /\ Unwrap(config.discord).enabled
     THEN << [channel |-> "discord",
              result |-> DiscordChatService_new(
                             Unwrap(config.discord).webhook_url,
                             config.client_builds)] >>
     ELSE <<>>)
    \o (IF IsSome(config.chat_discord) /\ Unwrap(config.chat_discord).enabled
        THEN << [channel |-> "chat.discord",
                 result |-> DiscordChatService_new(
                                Unwrap(config.chat_discord).webhook_url,
                                config.client_builds)] >>
        ELSE <<>>)
    \o (IF IsSome(config.chat_matrix) /\ Unwrap(config.chat_matrix).enabled
        THEN << [channel |-> "chat.matrix",
                 result |-> MatrixChatService_new(
                                Unwrap(config.chat_matrix).outcome)] >>
        ELSE <<>>)

\* A faulty variant of run_cli_services: a channel whose constructor fails is
\* left out and the others are registered.
RECURSIVE run_cli_services_skipping(_, _)
run_cli_services_skipping(constructions, added) ==
    IF constructions = <<>> THEN Ok(added)
    ELSE IF ~Head(constructions).result.ok
    THEN run_cli_services_skipping(Tail(constructions), added)
    ELSE run_cli_services_skipping(Tail(constructions),
                                   Append(added, Head(constructions).channel))

\* The `?` after each constructor and add_service: the services registered,
\* or the first error, named by its channel.
RECURSIVE run_cli_services(_, _)
run_cli_services(constructions, added) ==
    IF constructions = <<>> THEN Ok(added)
    ELSE IF ~Head(constructions).result.ok
    THEN [ok |-> FALSE, from |-> Head(constructions).channel]
    ELSE run_cli_services(Tail(constructions),
                          Append(added, Head(constructions).channel))

WebhookUrls ==
    { DiscordWebhookPrefix \o <<"1", "/", "t">>,
      DiscordappWebhookPrefix \o <<"1", "/", "t">>,
      <<"h", "t", "t", "p", ":", "/", "/", "h", "o", "o", "k">> }

DiscordConfigs ==
    {None} \cup { Some([enabled |-> e, webhook_url |-> u]) :
                    e \in BOOLEAN, u \in WebhookUrls }

MatrixConfigs ==
    {None} \cup { Some([enabled |-> e, outcome |-> o]) :
                    e \in BOOLEAN, o \in {"ok", "homeserver", "login", "sync"} }

InitCli ==
    /\ pc = "run_cli"
    /\ services = <<>>
    /\ events_seen = {}
    /\ images_seen = {}
    /\ current_target = None
    /\ meridian_flip_time = None
    /\ sequence = None
    /\ last_image_time = None
    /\ skipped_images_count = 0
    /\ remote = NoRemote
    /\ fetched = <<>>
    /\ index = 0
    /\ out = <<>>
    /\ history = NoHistory
    /\ \E client_builds \in BOOLEAN, discord \in DiscordConfigs,
          chat_discord \in DiscordConfigs, chat_matrix \in MatrixConfigs :
         call = [fn |-> "run_cli",
                 config |-> [client_builds |-> client_builds,
                             discord |-> discord,
                             chat_discord |-> chat_discord,
                             chat_matrix |-> chat_matrix]]
    /\ ret = None

\* run_cli, lines 20-59: the API client and the chat services are constructed;
\* the first error is returned, and otherwise the ChatUpdater is created with
\* the services and start_polling begins.
RunCli ==
    /\ pc = "run_cli"
    /\ LET r == IF ~call.config.client_builds
                THEN [ok |-> FALSE, from |-> "api"]
                ELSE run_cli_services(Constructions(call.config), <<>>)
       IN  IF r.ok
           THEN pc' = "start" /\ services' = r.value /\ ret' = ret
           ELSE pc' = "returned" /\ services' = services /\ ret' = Some(r)
    /\ UNCHANGED <<state_vars, remote, fetched, index, out, history, call>>

NextCli == RunCli \/ BaselineEvents

SpecCli == InitCli /\ [][NextCli]_vars

-----------------------------------------------------------------------------
(* Reference definitions for the claims about the resolver.                *)

\* Every node of the tree in depth-first pre-order: a node, then its Items,
\* then its later siblings.
RECURSIVE Preorder(_)
Preorder(values) ==
    IF values = <<>> THEN <<>>
    ELSE <<Head(values)>> \o Preorder(Head(values).Items) \o Preorder(Tail(values))

\* The same walk, descending only into the Items of nodes that carry both a
\* Name and a Status.
RECURSIVE SearchedPreorder(_)
SearchedPreorder(values) ==
    IF values = <<>> THEN <<>>
    ELSE LET v == Head(values)
         IN  <<v>>
             \o (IF IsSome(v.Name) /\ IsSome(v.Status)
                 THEN SearchedPreorder(v.Items) ELSE <<>>)
             \o SearchedPreorder(Tail(values))

\* The candidate predicate: running or active, named with the target suffix,
\* not a system container.
IsCandidate(v) ==
    /\ IsSome(v.Name)
    /\ IsSome(v.Status)
    /\ is_running_target_container(Unwrap(v.Name), Unwrap(v.Status))

IsNamedCandidate(v) ==
    /\ IsCandidate(v)
    /\ Unwrap(v.Name) # SUFFIX

StrippedName(v) == Unwrap(StripSuffix(Unwrap(v.Name), SUFFIX))

FirstIndex(list, P(_)) ==
    LET hits == { i \in 1..Len(list) : P(list[i]) }
    IN  IF hits = {} THEN 0 ELSE CHOOSE i \in hits : \A j \in hits : i <= j

Resolved == call.fn = "extract_current_target" /\ ret # None

\* C10 as stated: extract_current_target returns the suffix-stripped name of
\* the first container in depth-first pre-order that satisfies the candidate
\* predicate, and none iff no container of the tree satisfies it.
C10_FirstCandidateInPreorder ==
    Resolved =>
        LET walk == Preorder(call.response)
            first == FirstIndex(walk, IsCandidate)
        IN  Unwrap(ret) = IF first = 0 THEN None
                          ELSE Some(StrippedName(walk[first]))

\* C10 amended: the walk descends only through nodes that carry a Name and a
\* Status, and a candidate whose stripped name is empty is passed over: the
\* result is the stripped name of the first candidate with a non-empty
\* stripped name on that walk, and none iff the walk holds no such candidate.
C10_FirstNamedCandidateSearched ==
    Resolved =>
        LET walk == SearchedPreorder(call.response)
            first == FirstIndex(walk, IsNamedCandidate)
        IN  Unwrap(ret) = IF first = 0 THEN None
                          ELSE Some(StrippedName(walk[first]))

\* Two candidates with different names are on the walk, at different depths,
\* and the resolver has answered.
C10_Witness ==
    /\ Resolved
    /\ Len(call.response) = 1
    /\ LET top == call.response[1]
       IN  /\ ~IsCandidate(top)
           /\ Len(top.Items) = 2
           /\ IsNamedCandidate(top.Items[1])
           /\ IsNamedCandidate(top.Items[2])
           /\ top.Items[1].Name # top.Items[2].Name
           /\ Unwrap(ret) = Some(StrippedName(top.Items[1]))

-----------------------------------------------------------------------------
(* Claims about the dispatcher.                                            *)

\* The services an attempt list names, in order.
AttemptedServices(attempts) == [i \in 1..Len(attempts) |-> attempts[i].service]

\* C8: send_message attempts every registered channel exactly once, in
\* registration order, whatever subset of the channels fails, each attempt
\* ending as its channel decides, and the call returns to its caller; what
\* it returns with is what send_message(services, failing) computes.
C8_EveryChannelAttemptedOnce ==
    (call.fn = "send_message" /\ ret # None) =>
        LET r == Unwrap(ret)
        IN  /\ r.returned
            /\ r = send_message(call.services, call.failing)
            /\ AttemptedServices(r.attempts) = call.services
            /\ \A i \in 1..Len(r.attempts) :
                 /\ r.attempts[i].ok = (call.services[i] \notin call.failing)
                 /\ ~r.attempts[i].attachment

\* Three channels, the second of which fails: the first and the third were
\* attempted and succeeded.
C8_Witness ==
    /\ call.fn = "send_message"
    /\ ret # None
    /\ Len(call.services) = 3
    /\ call.failing = {call.services[2]}
    /\ Len(Unwrap(ret).attempts) = 3
    /\ Unwrap(ret).attempts[1].ok
    /\ ~Unwrap(ret).attempts[2].ok
    /\ Unwrap(ret).attempts[3].ok

\* C9: send_message_with_image fetches the thumbnail once; when the fetch
\* fails every channel is attempted exactly once without attachment, when it
\* succeeds every channel is attempted exactly once with the attachment, a
\* failing channel not preventing the others; what it returns with is what
\* send_message_with_image(services, failing, thumbnail_ok) computes.
C9_TextFallbackOnThumbnailFailure ==
    (call.fn = "send_message_with_image" /\ ret # None) =>
        LET r == Unwrap(ret)
        IN  /\ r.returned
            /\ r = send_message_with_image(call.services, call.failing,
                                           call.thumbnail_ok)
            /\ r.thumbnail_fetches = 1
            /\ AttemptedServices(r.attempts) = call.services
            /\ \A i \in 1..Len(r.attempts) :
                 /\ r.attempts[i].attachment = call.thumbnail_ok
                 /\ r.attempts[i].ok = (call.services[i] \notin call.failing)

\* The thumbnail download failed, two or more channels are registered, one of
\* them fails, and all of them got the text-only send.
C9_Witness ==
    /\ call.fn = "send_message_with_image"
    /\ ret # None
    /\ ~call.thumbnail_ok
    /\ Len(call.services) >= 2
    /\ call.failing = {call.services[1]}
    /\ Len(Unwrap(ret).attempts) = Len(call.services)
    /\ \A i \in 1..Len(call.services) : ~Unwrap(ret).attempts[i].attachment

-----------------------------------------------------------------------------
(* Claims about the monitor.  `out` holds the effects of the last step, so  *)
(* a property of one step relates the state before it to out' and the      *)
(* state after it.                                                         *)

Effects(o) == Range(o)

Calls(o) == { e \in Effects(o) : IsCall(e) }

Dispatches(o) == { e \in Effects(o) : e.effect = "dispatch" }

ImageDispatches(o) == { e \in Effects(o) : IsImageDispatch(e) }

Decisions(o) == { e \in Effects(o) : e.effect = "handle_new_image" }

HasTsTarget ==
    IsSome(current_target) /\ Unwrap(current_target).source = "TsTargetStart"

\* The target a TS-TARGETSTART event carries.
TargetOf(event) ==
    LET d == Unwrap(event.details)
    IN  TargetInfo(d.target_name, "TsTargetStart", Some(d.coordinates),
                   Some(d.project_name), Some(d.rotation))

\* The step handles a TS-TARGETSTART event that has not been seen before.
HandlesNewTargetStart ==
    /\ pc = "poll_events_loop"
    /\ fetched[index + 1].event = TS_TARGETSTART
    /\ IsTargetStart(fetched[index + 1].details)
    /\ event_key(fetched[index + 1]) \notin events_seen

\* C1: once current_target has source TsTargetStart, a poll_sequence step
\* leaves current_target as it is, whatever the fetched tree resolves to;
\* any step that replaces it is the handling of a TS-TARGETSTART event not
\* seen before, and the new target is the one that event carries.
C1_TargetStartOverridesSequence ==
    [][ HasTsTarget =>
          /\ pc = "poll_sequence" => current_target' = current_target
          /\ current_target' # current_target =>
               /\ HandlesNewTargetStart
               /\ current_target' = Some(TargetOf(fetched[index + 1])) ]_vars

\* A poll_sequence step has fetched a tree that resolves to another name than
\* the one of the TS-TARGETSTART target in place.
C1_Witness ==
    /\ pc = "poll_events"
    /\ HasTsTarget
    /\ \E e \in Effects(out) :
         /\ e.effect = "fetch" /\ e.what = "sequence" /\ e.response.ok
         /\ IsSome(extract_current_target(e.response.value))
         /\ Unwrap(extract_current_target(e.response.value))
              # Unwrap(current_target).name

\* The fingerprints initialize_baseline has recorded: those of the events
\* process_baseline_events does not skip, and of the images.
BaselineRecorded(h) ==
    IF h.baseline = None THEN {}
    ELSE { event_key(e) :
             e \in { x \in Unwrap(h.baseline).events :
                       ~is_redundant_filterwheel_event(x) } }
         \cup { image_key(i) : i \in Unwrap(h.baseline).images }

\* The seen set a call of has_seen_event or has_seen_image works on.
SeenSetOf(c, events, images) ==
    IF c.effect = "has_seen_event" THEN events ELSE images

\* C2 as stated: a call of has_seen_event / has_seen_image reports 'seen'
\* exactly when an earlier call was made with the same fingerprint, so the
\* first call for a fingerprint reports 'not seen'.
C2_NotSeenExactlyOnFirstCall ==
    [][ \A c \in Calls(out') : c.seen <=> c.key \in history.queried ]_vars

\* C2, amended: a call of has_seen_event / has_seen_image reports 'not seen'
\* exactly when neither initialize_baseline nor an earlier call has recorded
\* the fingerprint, and the fingerprint is recorded when the call returns; so
\* a fingerprint is reported new at most once, also when a batch repeats it.
C2_NotSeenExactlyWhenUnrecorded ==
    [][ \A c \in Calls(out') :
          /\ c.seen <=>
               c.key \in history.queried \cup BaselineRecorded(history)
          /\ c.seen <=> c.key \in SeenSetOf(c, events_seen, images_seen)
          /\ c.key \in SeenSetOf(c, events_seen', images_seen') ]_vars

\* A fingerprint the baseline did not record has been reported 'not seen' by
\* an earlier call and is reported 'seen' by the call of the last step.
C2_Witness ==
    \E c \in Calls(out) :
        /\ c.seen
        /\ c.key \notin BaselineRecorded(history)
        /\ c.key \in history.queried

\* The fingerprints of the no-op filter changes a remote serves.
NoOpKeys ==
    { event_key(e) :
        e \in { x \in UNION { p.events : p \in RemoteProfiles } :
                  is_redundant_filterwheel_event(x) } }

\* The state initialize_baseline has just returned Ok in: out holds the
\* effects of its last step, the return of the welcome message or, without
\* a service, of the image fetch.
BaselineJustDone ==
    /\ pc = "poll_sequence"
    /\ out # <<>>
    /\ \/ out[1].effect = "fetch" /\ out[1].what = "image_history"
       \/ out[1].effect = "sent" /\ out[1].message.title = "Monitor Started"

\* C3: the fingerprint of a FILTERWHEEL-CHANGED event whose previous and new
\* filter names are equal is never in events_seen; when initialize_baseline
\* has returned, events_seen is exactly the set of fingerprints of the other
\* events of the baseline history; and the tick step on such an event changes
\* no state and has no effect, so it notifies nothing.
C3_NoOpFilterChangeIgnored ==
    /\ [](events_seen \cap NoOpKeys = {})
    /\ [](BaselineJustDone =>
            events_seen =
              { event_key(e) :
                  e \in { x \in Unwrap(history.baseline).events :
                            ~is_redundant_filterwheel_event(x) } })
    /\ [][ (/\ pc = "poll_events_loop"
            /\ is_redundant_filterwheel_event(fetched[index + 1]))
           => /\ out' = <<>>
              /\ State' = State ]_vars

\* The baseline history held a no-op filter change next to another event, and
\* a later tick has just processed a no-op filter change.
C3_Witness ==
    /\ IsSome(history.baseline)
    /\ \E e \in Unwrap(history.baseline).events :
         is_redundant_filterwheel_event(e)
    /\ events_seen # {}
    /\ pc = "poll_events_loop"
    /\ index = 1
    /\ is_redundant_filterwheel_event(fetched[1])

\* The step is the tick's processing of an event, or of an image, that the
\* baseline fetch returned.
RefetchesBaselineEvent ==
    /\ pc = "poll_events_loop"
    /\ IsSome(history.baseline)
    /\ fetched[index + 1] \in Unwrap(history.baseline).events

RefetchesBaselineImage ==
    /\ pc = "poll_images_loop"
    /\ IsSome(history.baseline)
    /\ fetched[index + 1] \in Unwrap(history.baseline).images

\* An event or image of the baseline fetch is not new to a later tick: no
\* call reports it 'not seen' and the step on it decides and dispatches
\* nothing.
NothingNewInBaseline ==
    (RefetchesBaselineEvent \/ RefetchesBaselineImage)
    => /\ \A c \in Calls(out') : c.seen
       /\ Dispatches(out') = {}
       /\ Decisions(out') = {}

\* C4 as stated: after a successful baseline every event and every image of
\* the baseline fetch is in the seen sets, and a tick that fetches them again
\* finds none of them new and notifies nothing for them.
C4_BaselineAllInSeenSets ==
    /\ [](IsSome(history.baseline) =>
            /\ \A e \in Unwrap(history.baseline).events :
                 event_key(e) \in events_seen
            /\ \A i \in Unwrap(history.baseline).images :
                 image_key(i) \in images_seen)
    /\ [][NothingNewInBaseline]_vars

\* C4, amended: after a successful baseline every image of the baseline fetch
\* and every event of it other than a no-op filter change is in the seen
\* sets, and a tick that fetches the baseline's events and images again finds
\* none of them new and notifies nothing for them.
C4_BaselineNothingNewLater ==
    /\ [](IsSome(history.baseline) =>
            /\ \A e \in Unwrap(history.baseline).events :
                 ~is_redundant_filterwheel_event(e)
                 => event_key(e) \in events_seen
            /\ \A i \in Unwrap(history.baseline).images :
                 image_key(i) \in images_seen)
    /\ [][NothingNewInBaseline]_vars

\* With a service registered, a tick has just processed an image of the
\* baseline fetch.
C4_Witness ==
    /\ services # <<>>
    /\ IsSome(history.baseline)
    /\ \E c \in Calls(out) :
         /\ c.effect = "has_seen_image"
         /\ c.seen
         /\ \E i \in Unwrap(history.baseline).images : c.key = image_key(i)

\* The positions of the dispatches among the effects o.
DispatchPositions(o) == { i \in DOMAIN o : o[i].effect = "dispatch" }

\* The positions the monitor is suspended at inside a send_*_notification
\* method, and the handler that has called the method or the fetch awaited.
InNotification == pc \in {"add_mount_info", "get_thumbnail", "send_message"}

Caller == IF InNotification \/ pc = "get_last_autofocus" THEN call.from ELSE pc

\* The step calls a send_*_notification method with the message m: the
\* monitor is suspended in it, for the handler at `from`.
HandsOver(m, from) ==
    /\ InNotification'
    /\ call'.message = m
    /\ call'.from = from

\* C5: the steps of initialize_baseline dispatch at most one notification,
\* the "Monitor Started" summary; it is the last effect of the last step of a
\* baseline that returns Ok, after the event, sequence and image steps, and
\* it reports the target, the meridian flip time and the sizes of the seen
\* sets that the baseline leaves in the state; while it is sent nothing else
\* is dispatched and the state stays, and when it has been sent the first
\* tick begins.
C5_BaselineOnlyWelcome ==
    [][ /\ pc \in {"start", "baseline_sequence"} => DispatchPositions(out') = {}
        /\ pc = "baseline_images" =>
             /\ Cardinality(DispatchPositions(out')) <= 1
             /\ \A i \in DispatchPositions(out') :
                  /\ i = Len(out')
                  /\ HandsOver(out'[i].message, "baseline_images")
                  /\ out'[i].message.title = "Monitor Started"
                  /\ out'[i].message.current_target = current_target'
                  /\ out'[i].message.meridian_flip = meridian_flip_time'
                  /\ out'[i].message.events_in_history = Cardinality(events_seen')
                  /\ out'[i].message.images_in_history = Cardinality(images_seen')
                  /\ history'.baseline # None
        /\ (InNotification /\ call.from = "baseline_images") =>
             /\ DispatchPositions(out') = {}
             /\ State' = State
             /\ call.message.title = "Monitor Started"
             /\ LastService => pc' = "poll_sequence" ]_vars

\* A baseline over a history with events, an image and a target has returned
\* and has sent its summary.
C5_Witness ==
    /\ BaselineJustDone
    /\ IsSome(current_target)
    /\ events_seen # {}
    /\ images_seen # {}
    /\ \E e \in Effects(out) :
         e.effect = "sent" /\ e.message.title = "Monitor Started"

\* The decision d of a step was taken on the last_image_time of the state
\* before the step, read at most MaxDelay later; a suppressed image is not
\* dispatched and is counted once, a sent one is dispatched.
DecisionActedOn(d) ==
    /\ \E delay \in 0..MaxDelay :
         d.last_image_time = Later(last_image_time, delay)
    /\ d.should_send => ImageDispatches(out') # {}
    /\ ~d.should_send =>
         /\ Dispatches(out') = {}
         /\ skipped_images_count' = skipped_images_count + 1

\* C6 as stated: handle_new_image decides to send exactly when
\* last_image_time is unset or the time elapsed since it exceeds the
\* cooldown; otherwise nothing is dispatched and skipped_images_count grows
\* by one.
C6_SendsIffCooldownExceeded ==
    [][ \A d \in Decisions(out') :
          /\ d.should_send <=>
               \/ d.last_image_time = None
               \/ elapsed(d.last_image_time) > ImageCooldown
          /\ DecisionActedOn(d) ]_vars

\* C6, amended: handle_new_image decides to send exactly when last_image_time
\* is unset or the time elapsed since it is at least the cooldown; otherwise
\* (elapsed time below the cooldown) nothing is dispatched and
\* skipped_images_count grows by one.
C6_SendsIffCooldownReached ==
    [][ \A d \in Decisions(out') :
          /\ d.should_send <=>
               \/ d.last_image_time = None
               \/ elapsed(d.last_image_time) >= ImageCooldown
          /\ DecisionActedOn(d) ]_vars

\* A new image has been handled exactly one cooldown after the last image
\* notification.
C6_Witness ==
    \E d \in Decisions(out) :
        /\ d.last_image_time = Some(ImageCooldown)
        /\ d.should_send
        /\ ImageDispatches(out) # {}

ImagesSent(o) == { e \in Effects(o) : IsImageSent(e) }

\* C7: an image notification reports the number of new images left
\* undispatched since the image notification before it, which is 0 for the
\* first one; the step in which its send returns leaves skipped_images_count
\* at 0 and last_image_time set; and no other step lowers
\* skipped_images_count.
C7_ReportsSuppressedSinceLastSend ==
    /\ [](last_image_time = None => history.suppressed = 0)
    /\ [][ /\ \A d \in ImageDispatches(out') :
                /\ d.message.skipped = history.suppressed
                /\ HandsOver(d.message, "poll_images_loop")
           /\ \A e \in ImagesSent(out') :
                /\ e.message = call.message
                /\ skipped_images_count' = 0
                /\ IsSome(last_image_time')
           /\ ImagesSent(out') = {} =>
                skipped_images_count' >= skipped_images_count ]_vars

\* An image notification reporting a suppressed image has just been sent.
C7_Witness ==
    /\ skipped_images_count = 0
    /\ IsSome(last_image_time)
    /\ \E e \in ImagesSent(out) : e.message.skipped > 0

-----------------------------------------------------------------------------
(* Claims about the candidate test of the resolver.                        *)

\* The name extract_current_target returns for a container of that name.
TargetNameOf(name) ==
    IF IsSome(StripSuffix(name, SUFFIX)) THEN Unwrap(StripSuffix(name, SUFFIX))
    ELSE name

\* The nodes of a forest, nested ones included.
RECURSIVE NodesOf(_)
NodesOf(values) ==
    IF values = <<>> THEN {}
    ELSE {Head(values)} \cup NodesOf(Head(values).Items)
         \cup NodesOf(Tail(values))

\* C11: extract_current_target never returns the name of a container named
\* exactly as one of the system containers ("Targets_Container" and the six
\* others), whatever the statuses in the tree; a tree whose named containers
\* all carry system container names resolves to no target.
C11_SystemContainerNeverReturned ==
    ret # None =>
      /\ \A sys_name \in system_containers :
           Unwrap(ret) # Some(TargetNameOf(sys_name))
      /\ (\A n \in NodesOf(call.response) :
            IsSome(n.Name) => Unwrap(n.Name) \in system_containers)
         => Unwrap(ret) = None

\* The resolver has run on a tree whose first container is a RUNNING
\* "Targets_Container".
C11_Witness ==
    /\ ret # None
    /\ call.response # <<>>
    /\ call.response[1].Name = Some(TargetsContainer)
    /\ call.response[1].Status = Some("RUNNING")

\* The response holds one container, with a name and a status and no items.
OneContainer ==
    /\ Len(call.response) = 1
    /\ IsSome(call.response[1].Name)
    /\ IsSome(call.response[1].Status)
    /\ call.response[1].Items = <<>>

\* C12: a container is accepted as the target exactly when its status is
\* "RUNNING" or "Active", its name ends with "_Container" and its whole name
\* is not one of the system container names (stated for a response of one
\* container whose name is more than the suffix).
C12_AcceptedIffNotDenyListedName ==
    (ret # None /\ OneContainer /\ Unwrap(call.response[1].Name) # SUFFIX)
    => LET name == Unwrap(call.response[1].Name)
           status == Unwrap(call.response[1].Status)
       IN  IsSome(Unwrap(ret)) <=>
             /\ status \in {"RUNNING", "Active"}
             /\ EndsWith(name, SUFFIX)
             /\ name \notin system_containers

-----------------------------------------------------------------------------
(* Claims about the phases of a tick.                                      *)

\* The positions the monitor can be at when the handler called at the
\* position p has returned.
Returns(p) ==
    CASE p = "baseline_images" -> {"poll_sequence"}
      [] p = "poll_sequence" -> {"poll_events"}
      [] p = "poll_events_loop" -> {"poll_events_loop", "poll_images"}
      [] p = "poll_images_loop" -> {"poll_images_loop", "sleep"}
      [] OTHER -> {}

\* The positions the monitor can be at after a step from the position p,
\* called from c when p is inside a call.
Successors(p, c) ==
    CASE p = "start" -> {"baseline_sequence", "stopped"}
      [] p = "baseline_sequence" -> {"baseline_images"}
      [] p = "baseline_images" -> {"add_mount_info", "stopped"} \cup Returns(p)
      [] p = "poll_sequence" -> {"add_mount_info"} \cup Returns(p)
      [] p = "poll_events" -> {"poll_events_loop", "poll_images"}
      [] p = "poll_events_loop" ->
           {"add_mount_info", "send_message", "get_last_autofocus"}
           \cup Returns(p)
      [] p = "get_last_autofocus" -> {"send_message"} \cup Returns(c)
      [] p = "poll_images" -> {"poll_images_loop", "sleep"}
      [] p = "poll_images_loop" -> {"get_thumbnail", "panicked"} \cup Returns(p)
      [] p = "add_mount_info" -> {"send_message"}
      [] p = "get_thumbnail" -> {"send_message"}
      [] p = "send_message" -> {"send_message"} \cup Returns(c)
      [] p = "sleep" -> {"poll_sequence"}
      [] OTHER -> {}

TargetTitles == {"Target Started", "Target Change"}

Titles(o) == { d.message.title : d \in Dispatches(o) }

\* C13: the steps of the monitor follow the order sequence poll, event poll,
\* image poll, sleep, and the next tick starts after the sleep; a notification
\* a step dispatches is awaited by the handler that dispatches it, which goes
\* on when every channel has been attempted; the sequence phase dispatches
\* target notifications only and before any other dispatch of its tick, the
\* event phase dispatches no image notification and nothing after an image
\* notification of its tick, the image phase dispatches image notifications
\* only, and the fetches and the sleep dispatch nothing.
C13_PhasesInOrder ==
    [][ /\ pc' \in Successors(pc, Caller)
        /\ \A d \in Dispatches(out') : HandsOver(d.message, Caller)
        /\ pc = "add_mount_info" => call' = call
        /\ pc = "get_thumbnail" =>
             /\ IsSome(call'.thumbnail)
             /\ call' = [call EXCEPT !.thumbnail = call'.thumbnail]
        /\ (pc = "send_message" /\ ~LastService) =>
             /\ pc' = pc
             /\ Len(call'.attempts) = Len(call.attempts) + 1
             /\ AttemptedServices(call'.attempts)
                  = SubSeq(services, 1, Len(call'.attempts))
             /\ call'.message = call.message
        /\ LastService =>
             \E sent \in NotificationResults :
               /\ out' = <<Sent(call.message, sent)>>
               /\ sent.returned
               /\ AttemptedServices(sent.attempts) = services
        /\ Caller = "poll_sequence" =>
             /\ Titles(out') \subseteq TargetTitles
             /\ Dispatches(out') # {} => history.dispatched = {}
        /\ Caller = "poll_events_loop" =>
             /\ "New Frame Captured" \notin Titles(out')
             /\ Dispatches(out') # {} => "images" \notin history.dispatched
        /\ Caller = "poll_images_loop" =>
             Titles(out') \subseteq {"New Frame Captured"}
        /\ pc \in {"poll_events", "poll_images", "sleep"} =>
             Dispatches(out') = {}
        /\ pc = "sleep" <=>
             (pc' = "poll_sequence" /\ Caller # "baseline_images") ]_vars

\* The three phases of one tick have each dispatched a notification, and the
\* tick is at its sleep, the image notification sent.
C13_Witness ==
    /\ pc = "sleep"
    /\ history.dispatched = {"sequence", "events", "images"}
    /\ ImagesSent(out) # {}

\* The sequence fetch of the effects o has failed.
SequenceFetchFailed(o) ==
    \E e \in Effects(o) : e.effect = "fetch" /\ e.what = "sequence" /\ ~e.response.ok

\* C14: a poll_sequence step whose fetch fails leaves current_target,
\* meridian_flip_time and the stored sequence as they are, dispatches nothing,
\* and is followed by the event phase of the same tick.
C14_FailedSequenceFetchKeepsState ==
    [][ (pc = "poll_sequence" /\ SequenceFetchFailed(out')) =>
          /\ current_target' = current_target
          /\ meridian_flip_time' = meridian_flip_time
          /\ sequence' = sequence
          /\ Dispatches(out') = {}
          /\ pc' = "poll_events" ]_vars

\* The sequence fetch of a tick has failed while a target, a meridian flip
\* time and a sequence were stored, and chat services are registered.
C14_Witness ==
    /\ pc = "poll_events"
    /\ SequenceFetchFailed(out)
    /\ IsSome(current_target)
    /\ IsSome(meridian_flip_time)
    /\ IsSome(sequence)
    /\ services # <<>>

\* The step is a failed fetch of the event history (of the image history).
EventFetchFails == pc = "poll_events" /\ out' = <<Logged("Error fetching events")>>

ImageFetchFails == pc = "poll_images" /\ out' = <<Logged("Error fetching images")>>

\* The events (images) the remote serves that the monitor has not seen.
IsUnseenEvent(e) == should_process_event(e) /\ event_key(e) \notin events_seen

IsUnseenImage(i) == image_key(i) \notin images_seen

UnseenEvents == { e \in remote.events : IsUnseenEvent(e) }

\* C15: a failed fetch of the event (image) history leaves the seen sets, the
\* cooldown state and the rest of the monitor's state as they are and
\* dispatches nothing, and the monitor goes on to the image phase (the sleep)
\* of the tick; every tick fetches again, whatever has failed before; and an
\* event or image of a later successful fetch whose fingerprint is not in the
\* seen set is reported as not seen when its turn in the loop comes.
C15_FailedFetchSkipsPhase ==
    /\ [](pc = "poll_events" => ENABLED FetchEvents)
    /\ [](pc = "poll_images" => ENABLED FetchImages)
    /\ [][ /\ EventFetchFails =>
                /\ State' = State /\ history' = history
                /\ Dispatches(out') = {}
                /\ pc' = "poll_images"
           /\ ImageFetchFails =>
                /\ State' = State /\ history' = history
                /\ Dispatches(out') = {}
                /\ pc' = "sleep"
           /\ (pc = "poll_events_loop" /\ IsUnseenEvent(fetched[index + 1])) =>
                Called("has_seen_event", event_key(fetched[index + 1]), FALSE)
                  \in Calls(out')
           /\ (pc = "poll_images_loop" /\ IsUnseenImage(fetched[index + 1])) =>
                Called("has_seen_image", image_key(fetched[index + 1]), FALSE)
                  \in Calls(out') ]_vars

\* The event fetch of a tick has failed while the remote serves an event the
\* monitor has not seen, with seen events and a running cooldown in the state.
C15_Witness ==
    /\ pc = "poll_images"
    /\ out = <<Logged("Error fetching events")>>
    /\ UnseenEvents # {}
    /\ events_seen # {}
    /\ IsSome(last_image_time)
    /\ services # <<>>

\* The step is a poll_sequence whose failed fetch is logged.
SequenceFailureLogged ==
    /\ pc = "poll_sequence"
    /\ Logged("Error fetching sequence (will retry silently)") \in Effects(out')

\* C16: poll_sequence logs a failed sequence fetch at most once in a run: a
\* failure is not logged when poll_sequence has logged one before.
C16_SequenceFailureLoggedOnce ==
    [][ SequenceFailureLogged => ~history.sequence_error_logged ]_vars

-----------------------------------------------------------------------------
(* Claims about the notifications outside the image cooldown.              *)

\* States of the cooldown gate, last_image_time and skipped_images_count: open
\* with no image sent yet, closed by an image just sent with another one
\* suppressed since, and open again after the cooldown.
GateStates ==
    { [last_image_time |-> None, skipped_images_count |-> 0],
      [last_image_time |-> Some(0), skipped_images_count |-> 1],
      [last_image_time |-> Some(ImageCooldown), skipped_images_count |-> 0] }

\* The state s with the cooldown gate in the state g.
Gated(s, g) ==
    [s EXCEPT !.last_image_time = g.last_image_time,
              !.skipped_images_count = g.skipped_images_count]

\* The response of the fetch of `what` among the effects o (Err when there is
\* none).
FetchOf(o, what) ==
    LET fetches == { e \in Effects(o) : e.effect = "fetch" /\ e.what = what }
    IN  IF fetches = {} THEN Err ELSE (CHOOSE e \in fetches : TRUE).response

\* The event of the loop iteration is new and of a kind handle_event passes to
\* handle_mount_event or handle_generic_event, with a notification to build.
NewPlainEvent ==
    /\ pc = "poll_events_loop"
    /\ IsUnseenEvent(fetched[index + 1])
    /\ fetched[index + 1].event
         \notin {TS_TARGETSTART, AUTOFOCUS_FINISHED, IMAGE_SAVE}
    /\ ~IsTargetStart(fetched[index + 1].details)

\* The notifications sent by the step with effects o.
Sends(o) == { e \in Effects(o) : e.effect = "sent" }

\* C17: a step of the sequence phase or of the event loop, the steps its
\* notifications are sent in included, leaves last_image_time and
\* skipped_images_count as they are; what it dispatches is what it would
\* dispatch, on the same inputs, in the other states of the cooldown gate; a
\* notification is handed to the channels in the step that builds it and
\* sent to every registered service; and with a service registered, a new
\* mount or generic event is dispatched in the step that handles it.
C17_OtherNotificationsBypassGate ==
    [][ /\ Caller \in {"poll_sequence", "poll_events_loop"} =>
             /\ last_image_time' = last_image_time
             /\ skipped_images_count' = skipped_images_count
             /\ \A d \in Dispatches(out') : HandsOver(d.message, Caller)
             /\ \A e \in Sends(out') :
                  /\ e.message = call.message
                  /\ AttemptedServices(e.sent.attempts) = services
        /\ pc = "poll_sequence" =>
             \A g \in GateStates :
               poll_sequence(Gated(State, g), services,
                             FetchOf(out', "sequence")).out = out'
        /\ pc = "poll_events_loop" =>
             \A g \in GateStates :
               poll_events_item(Gated(State, g), fetched[index + 1],
                                services).out = out'
        /\ pc = "get_last_autofocus" =>
             \A g \in GateStates :
               handle_autofocus_finished(Gated(State, g), services,
                                         FetchOf(out', "autofocus")).out = out'
        /\ (NewPlainEvent /\ services # <<>>) => Dispatches(out') # {} ]_vars

\* Inside the cooldown window of an image notification, a notification of
\* the event loop has been sent.
C17_Witness ==
    /\ pc \in {"poll_events_loop", "poll_images"}
    /\ IsSome(last_image_time)
    /\ elapsed(last_image_time) < ImageCooldown
    /\ Sends(out) # {}
    /\ "events" \in history.dispatched

-----------------------------------------------------------------------------
(* Claims about the target notifications.                                  *)

\* The positions of the target notifications among the effects o.
TargetNotificationPositions(o) ==
    { i \in DispatchPositions(o) : o[i].message.title \in TargetTitles }

\* The step replaces current_target.
TargetUpdated == current_target' # current_target

\* The step emits one target notification: "Target Started" for the new
\* target when there was none before, "Target Change" from the previous to the
\* new target when there was one.
NotifiedOnce ==
    /\ Cardinality(TargetNotificationPositions(out')) = 1
    /\ \A i \in TargetNotificationPositions(out') :
         IF current_target = None
         THEN /\ out'[i].message.title = "Target Started"
              /\ out'[i].message.target = Unwrap(current_target').name
         ELSE /\ out'[i].message.title = "Target Change"
              /\ out'[i].message.previous_target = Unwrap(current_target).name
              /\ out'[i].message.new_target = Unwrap(current_target').name

Unnotified == TargetNotificationPositions(out') = {}

\* The name the step resolves from the fetched sequence, or the name the
\* TS-TARGETSTART event it handles announces: None when there is none.
OfferedName ==
    IF pc = "poll_sequence"
    THEN LET fetches == { e \in Effects(out') :
                            e.effect = "fetch" /\ e.what = "sequence" /\ e.response.ok }
         IN  IF fetches = {} THEN None
             ELSE extract_current_target((CHOOSE e \in fetches : TRUE).response.value)
    ELSE IF HandlesNewTargetStart
         THEN Some(Unwrap(fetched[index + 1].details).target_name)
         ELSE None

\* A step that is offered the name of the stored target leaves current_target
\* as it is.
SameNameKept ==
    (IsSome(current_target) /\ OfferedName = Some(Unwrap(current_target).name))
    => ~TargetUpdated

\* C18 as stated: a poll_sequence or event step that replaces current_target
\* emits exactly one target notification, and a step that leaves it emits
\* none.
C18_UpdateNotifiedOnce ==
    [][ (pc \in {"poll_sequence", "poll_events_loop"}) =>
          /\ TargetUpdated => NotifiedOnce
          /\ ~TargetUpdated => Unnotified
          /\ SameNameKept ]_vars

\* C18: with a chat service registered, a poll_sequence or event step that
\* replaces current_target emits exactly one target notification, "Target
\* Started" when there was no target and "Target Change" naming the previous
\* and the new target when there was one; with no service registered, the
\* target is replaced and nothing is emitted; a step that leaves current_target
\* emits no target notification, and a step offered the stored name leaves it.
C18_UpdateNotifiedOnceIfServices ==
    [][ (pc \in {"poll_sequence", "poll_events_loop"}) =>
          /\ TargetUpdated =>
               IF services # <<>> THEN NotifiedOnce ELSE Dispatches(out') = {}
          /\ ~TargetUpdated => Unnotified
          /\ SameNameKept ]_vars

\* A step has replaced a target by another and dispatched the "Target Change"
\* that names both.
C18_Witness ==
    /\ services # <<>>
    /\ IsSome(current_target)
    /\ \E d \in Dispatches(out) :
         /\ d.message.title = "Target Change"
         /\ d.message.new_target = Unwrap(current_target).name
         /\ d.message.previous_target # d.message.new_target

-----------------------------------------------------------------------------
(* Claims about the fingerprints.                                          *)

\* The identity of an event is its (time, kind, details) triple, the identity
\* of an image its (timestamp, camera name) pair.
SameIdentity(fn, a, b) ==
    IF fn = "event_key"
    THEN a.time = b.time /\ a.event = b.event /\ a.details = b.details
    ELSE a.date = b.date /\ a.camera_name = b.camera_name

\* C19: two events have the same event_key exactly when their times, kinds
\* and details are equal, and two images the same image_key exactly when
\* their timestamps and camera names are equal.
C19_KeyEqualIffIdentityEqual ==
    (call.fn \in {"event_key", "image_key"} /\ ret # None) =>
        (Unwrap(ret)[1] = Unwrap(ret)[2] <=> SameIdentity(call.fn, call.a, call.b))

-----------------------------------------------------------------------------
(* Claims about a send that does not complete.                             *)

\* C20: every send_message eventually returns to its caller, having attempted
\* every registered channel, whatever the channels answer or fail to answer.
C20_EveryDispatchSettles ==
    <>(/\ pc = "returned"
       /\ AttemptedServices(Unwrap(ret).attempts) = call.services)

-----------------------------------------------------------------------------
(* Claims about the start of the program.                                  *)

\* The enabled channels of the configuration whose construction fails.
FailingChannels(config) ==
    { c \in {"discord", "chat.discord", "chat.matrix"} :
        \E i \in DOMAIN Constructions(config) :
          /\ Constructions(config)[i].channel = c
          /\ ~Constructions(config)[i].result.ok }

\* C21: when the construction of an enabled channel fails, run_cli returns an
\* error, that of a failing channel unless the API client has failed before,
\* and the monitor is never started: nothing is fetched, no state is built
\* and nothing is dispatched.
C21_FailedChannelAbortsStartup ==
    (call.fn = "run_cli" /\ FailingChannels(call.config) # {}) =>
        /\ pc \in {"run_cli", "returned"}
        /\ out = <<>> /\ history = NoHistory /\ services = <<>>
        /\ State = UpdaterState_new
        /\ pc = "returned" =>
             /\ ret # None /\ ~Unwrap(ret).ok
             /\ Unwrap(ret).from \in FailingChannels(call.config) \cup {"api"}
             /\ Unwrap(ret).from = "api" <=> ~call.config.client_builds

\* run_cli has returned the error of the Matrix login, after a Discord
\* service was constructed.
C21_Witness ==
    /\ pc = "returned"
    /\ call.fn = "run_cli"
    /\ Unwrap(ret).from = "chat.matrix"
    /\ Len(Constructions(call.config)) = 2
    /\ Constructions(call.config)[1].channel = "chat.discord"
    /\ Constructions(call.config)[1].result.ok
    /\ Unwrap(call.config.chat_matrix).outcome = "login"

(***************************************************************************)
(* sequence.rs: meridian_flip_time_formatted and                           *)
(* meridian_flip_time_formatted_with_clock.                                *)
(*                                                                         *)
(* Hours are thousandths of an hour, as everywhere in this module.  The    *)
(* code multiplies an f64 by 60.0; the integer arithmetic below equals     *)
(* that product exactly for hours that are a whole number of eighths       *)
(* (multiples of 125 thousandths), which are the hours FlipHours draws.    *)
(* Formatted text is a sequence of one-character strings.                  *)
(***************************************************************************)
MaxEighths == 40
LongEighths == {799, 800, 801}
ClockNows == {0, 43200, 86399}

\* `as i32` / `as i64` on a float, and `/` on integers: toward zero.
TruncDiv(a, b) ==
    IF a >= 0 THEN a \div b ELSE -((-a) \div b)

\* `%` on integers: the remainder has the sign of the dividend.
TruncRem(a, b) ==
    a - b * TruncDiv(a, b)

DecimalDigits ==
    <<"0", "1", "2", "3", "4", "5", "6", "7", "8", "9">>

RECURSIVE Decimal(_)
Decimal(n) ==
    IF n < 10 THEN <<DecimalDigits[n + 1]>>
    ELSE Decimal(n \div 10) \o <<DecimalDigits[(n % 10) + 1]>>

\* format!("{n:02}"): minimum width 2, sign first, zeros between sign and
\* digits, never truncated.
Format02(n) ==
    LET sign == IF n < 0 THEN <<"-">> ELSE <<>>
        body == Decimal(IF n < 0 THEN -n ELSE n)
        fill == IF Len(sign) + Len(body) < 2 THEN <<"0">> ELSE <<>>
    IN  sign \o fill \o body

total_minutes(hours) ==
    TruncDiv(hours * 60, 1000)

meridian_flip_time_formatted(hours) ==
    LET hrs == TruncDiv(total_minutes(hours), 60)
        mins == TruncRem(total_minutes(hours), 60)
    IN  Format02(hrs) \o <<":">> \o Format02(mins)

\* `now` is the local time of day, in seconds, at the call.
meridian_flip_time_formatted_with_clock(hours, now) ==
    LET hrs == TruncDiv(total_minutes(hours), 60)
        mins == TruncRem(total_minutes(hours), 60)
        duration_str == Format02(hrs) \o <<":">> \o Format02(mins)
        local_flip_time == (now + TruncDiv(hours * 3600, 1000)) % 86400
        clock_time == Format02(local_flip_time \div 3600) \o <<":">>
                      \o Format02((local_flip_time \div 60) % 60) \o <<":">>
                      \o Format02(local_flip_time % 60)
    IN  duration_str \o <<" ", "(", "a", "t", " ">> \o clock_time \o <<")">>

FlipHours ==
    {125 * k : k \in (-MaxEighths .. MaxEighths) \cup LongEighths}

InitFormat ==
    /\ pc = "format"
    /\ services = <<>>
    /\ events_seen = {}
    /\ images_seen = {}
    /\ current_target = None
    /\ meridian_flip_time = None
    /\ sequence = None
    /\ last_image_time = None
    /\ skipped_images_count = 0
    /\ remote = NoRemote
    /\ fetched = None
    /\ index = 0
    /\ out = <<>>
    /\ history = NoHistory
    /\ \E hours \in FlipHours, now \in ClockNows :
          call = [fn |-> "meridian_flip_time_formatted",
                  hours |-> hours, now |-> now]
    /\ ret = None

FormatDuration ==
    /\ pc = "format"
    /\ pc' = "format_with_clock"
    /\ ret' = Some([duration |-> meridian_flip_time_formatted(call.hours)])
    /\ UNCHANGED <<services, events_seen, images_seen, current_target,
                   meridian_flip_time, sequence, last_image_time,
                   skipped_images_count, remote, fetched, index, out,
                   history, call>>

FormatWithClock ==
    /\ pc = "format_with_clock"
    /\ pc' = "returned"
    /\ ret' = Some([duration |-> Unwrap(ret).duration,
                    with_clock |-> meridian_flip_time_formatted_with_clock(
                                       call.hours, call.now)])
    /\ UNCHANGED <<services, events_seen, images_seen, current_target,
                   meridian_flip_time, sequence, last_image_time,
                   skipped_images_count, remote, fetched, index, out,
                   history, call>>

NextFormat == FormatDuration \/ FormatWithClock

SpecFormat == InitFormat /\ [][NextFormat]_vars

(***************************************************************************)
(* Claims about the meridian flip texts                                    *)
(***************************************************************************)
DigitValue(c) ==
    CHOOSE d \in 0 .. 9 : DecimalDigits[d + 1] = c

IsDigits(field) ==
    \A i \in 1 .. Len(field) : \E d \in 0 .. 9 : DecimalDigits[d + 1] = field[i]

RECURSIVE ReadDigits(_)
ReadDigits(field) ==
    IF field = <<>> THEN 0
    ELSE ReadDigits(SubSeq(field, 1, Len(field) - 1)) * 10
         + DigitValue(field[Len(field)])

ColonAt(text) ==
    CHOOSE i \in 1 .. Len(text) :
        text[i] = ":" /\ \A j \in 1 .. (i - 1) : text[j] # ":"

HoursField(text) == SubSeq(text, 1, ColonAt(text) - 1)

MinutesField(text) == SubSeq(text, ColonAt(text) + 1, Len(text))

\* hours*60 without its fraction, keeping the sign of hours.
WholeMinutes(hours) ==
    LET magnitude == ((IF hours < 0 THEN -hours ELSE hours) * 60) \div 1000
    IN  IF hours < 0 THEN -magnitude ELSE magnitude

\* C22: meridian_flip_time_formatted(hours) is HH:MM with both fields made
\* of at least two decimal digits, HH*60 + MM is hours*60 truncated toward
\* zero with MM below 60, and the text of
\* meridian_flip_time_formatted_with_clock for the same hours starts with
\* the same string, followed by " (at ".
C22_DurationIsPaddedHoursMinutes ==
    (pc = "returned") =>
        LET text == Unwrap(ret).duration
            hh == HoursField(text)
            mm == MinutesField(text)
            clocked == Unwrap(ret).with_clock
        IN  /\ IsDigits(hh) /\ Len(hh) >= 2
            /\ IsDigits(mm) /\ Len(mm) = 2
            /\ ReadDigits(mm) < 60
            /\ ReadDigits(hh) * 60 + ReadDigits(mm) = WholeMinutes(call.hours)
            /\ SubSeq(clocked, 1, Len(text) + 5)
                   = text \o <<" ", "(", "a", "t", " ">>

\* The same statement for the hours that are not negative.
C22_HoldsFromZero ==
    (call.hours >= 0) => C22_DurationIsPaddedHoursMinutes

C22_TruncatedCase ==
    /\ pc = "returned"
    /\ call.hours = 1875
    /\ Unwrap(ret).duration = <<"0", "1", ":", "5", "2">>

C22_NegativeCase ==
    /\ pc = "returned"
    /\ call.hours = -125
    /\ Unwrap(ret).duration = <<"0", "0", ":", "-", "7">>

(***************************************************************************)
(* Claims about the source of the current target                           *)
(***************************************************************************)
HandlesNewNamedTargetStart ==
    /\ HandlesNewTargetStart
    /\ Unwrap(fetched[index + 1].details).target_name # SEQUENTIAL_INSTRUCTION_SET

\* C23: the step that handles a TS-TARGETSTART event not seen before, naming
\* a target other than "Sequential Instruction Set", leaves current_target
\* naming that target with source TsTargetStart; and from a state whose
\* current_target has source TsTargetStart, a poll_sequence step leaves
\* current_target as it is.
C23_TargetStartTakesOver ==
    [][ /\ HandlesNewNamedTargetStart =>
             /\ IsSome(current_target')
             /\ Unwrap(current_target').name
                    = Unwrap(fetched[index + 1].details).target_name
             /\ Unwrap(current_target').source = "TsTargetStart"
        /\ (pc = "poll_sequence" /\ HasTsTarget) =>
             current_target' = current_target ]_vars

\* A TS-TARGETSTART event not seen before has been handled while the stored
\* target, resolved from the sequence, had the name it announces: the stored
\* target still has source Sequence and no coordinates.
C23_SameNameAnnounced ==
    /\ pc \in {"poll_events_loop", "poll_images"}
    /\ IsSome(history.baseline)
    /\ IsSome(current_target)
    /\ Unwrap(current_target).source = "Sequence"
    /\ \E e \in {EvTargetM31, EvTargetM42} :
         /\ event_key(e) \in events_seen
         /\ e \notin Unwrap(history.baseline).events
         /\ Unwrap(e.details).target_name = Unwrap(current_target).name

\* C24: in every state, a current_target with source TsTargetStart has its
\* coordinates, project and rotation, and one with source Sequence has none
\* of them.
C24_DetailsFollowSource ==
    IsSome(current_target) =>
        LET t == Unwrap(current_target)
        IN  /\ t.source \in {"TsTargetStart", "Sequence"}
            /\ t.source = "TsTargetStart" =>
                 IsSome(t.coordinates) /\ IsSome(t.project) /\ IsSome(t.rotation)
            /\ t.source = "Sequence" =>
                 t.coordinates = None /\ t.project = None /\ t.rotation = None

\* A tick has replaced a target resolved from the sequence by the target a
\* TS-TARGETSTART event announces.
C24_Witness ==
    /\ Caller = "poll_events_loop"
    /\ IsSome(history.baseline)
    /\ IsSome(current_target)
    /\ Unwrap(current_target).source = "TsTargetStart"
    /\ Unwrap(current_target).rotation = Some(90)
    /\ \E i \in DispatchPositions(out) :
         /\ out[i].message.title = "Target Change"
         /\ out[i].message.previous_target = M31

(***************************************************************************)
(* Claims about the container named by the suffix alone                    *)
(***************************************************************************)
\* C25: extract_current_target never returns the empty name; a tree in which
\* every running, suffix-matching, non-system container is named exactly
\* "_Container" resolves to no target.
C25_NeverEmptyName ==
    Resolved =>
        /\ Unwrap(ret) # Some(<<>>)
        /\ (\A v \in NodesOf(call.response) :
               IsCandidate(v) => Unwrap(v.Name) = SUFFIX)
           => Unwrap(ret) = None

\* A tree whose first container is a running "_Container", with containers
\* nested in it, has been resolved to no target.
C25_Witness ==
    /\ Resolved
    /\ call.response # <<>>
    /\ call.response[1].Name = Some(SUFFIX)
    /\ call.response[1].Status = Some("RUNNING")
    /\ call.response[1].Items # <<>>
    /\ Unwrap(ret) = None

(***************************************************************************)
(* Claims about the containers the resolver descends into                  *)
(***************************************************************************)
\* C26: a container is a node with a Name and a Status.  The resolver searches
\* the Items of every container that is not itself a hit, whatever its status
\* and whether or not its name is deny-listed: a running target container
\* reached through containers, after whatever siblings, makes the resolver
\* return a target, and a target is returned only if there is one.
C26_NestedTargetFoundUnderNamed ==
    Resolved =>
        LET searched == Range(SearchedPreorder(call.response))
        IN  /\ \A v \in searched : IsNamedCandidate(v) => Unwrap(ret) # None
            /\ Unwrap(ret) # None => \E v \in searched : IsNamedCandidate(v)

\* A running deny-listed container holds a finished container followed by an
\* active one, and the active one has been returned.
C26_Witness ==
    /\ Resolved
    /\ Len(call.response) = 1
    /\ LET top == call.response[1]
       IN  /\ top.Name = Some(TargetsContainer)
           /\ Len(top.Items) = 2
           /\ top.Items[1].Status = Some("FINISHED")
           /\ top.Items[2].Status = Some("Active")
           /\ Unwrap(ret) = Some(StrippedName(top.Items[2]))

(***************************************************************************)
(* initialize_baseline on its own, over event histories that hold          *)
(* TS-TARGETSTART events of equal time and one without details.            *)
(***************************************************************************)
EvTargetM42Same ==
    Event(<<"3">>, TS_TARGETSTART, Some(TargetStart(M42, "ra2", "proj", 90)))

EvTargetNoDetails == Event(<<"6">>, TS_TARGETSTART, None)

BaselineProfile ==
    [events |-> {EvCameraConnected, EvTargetM31, EvTargetM42, EvTargetM42Same,
                 EvTargetPlaceholder, EvTargetNoDetails},
     images |-> {Image1},
     sequences |-> {SequenceIdle, SequenceM31}]

InitBaseline ==
    /\ pc = "start"
    /\ services \in { [i \in 1..n |-> i] : n \in 0..MaxServices }
    /\ remote = BaselineProfile
    /\ events_seen = UpdaterState_new.events_seen
    /\ images_seen = UpdaterState_new.images_seen
    /\ current_target = UpdaterState_new.current_target
    /\ meridian_flip_time = UpdaterState_new.meridian_flip_time
    /\ sequence = UpdaterState_new.sequence
    /\ last_image_time = UpdaterState_new.last_image_time
    /\ skipped_images_count = UpdaterState_new.skipped_images_count
    /\ fetched = <<>>
    /\ index = 0
    /\ out = <<>>
    /\ history = NoHistory
    /\ call = NoCall
    /\ ret = None

NextBaseline ==
    \/ BaselineEvents
    \/ BaselineSequence
    \/ BaselineImages
    \/ GetMountInfoReturns
    \/ ServiceSendReturns

SpecBaseline == InitBaseline /\ [][NextBaseline]_vars

(***************************************************************************)
(* Claims about the target of the baseline                                 *)
(***************************************************************************)
\* The positions of the TS-TARGETSTART events with target details and a name
\* other than "Sequential Instruction Set".
Announcing(events) ==
    { i \in 1 .. Len(events) :
        /\ events[i].event = TS_TARGETSTART
        /\ IsTargetStart(events[i].details)
        /\ Unwrap(events[i].details).target_name # SEQUENTIAL_INSTRUCTION_SET }

\* The first position among those of greatest time.
LatestAnnouncing(events) ==
    CHOOSE i \in Announcing(events) :
        \A j \in Announcing(events) :
            /\ ~StringLess(events[i].time, events[j].time)
            /\ events[j].time = events[i].time => i <= j

\* The sequence part of initialize_baseline has run: the events read are in
\* `fetched` until initialize_baseline returns.
BaselineTargetSet == Caller = "baseline_images"

\* C27: when the sequence part of the baseline has run and the event history
\* holds a TS-TARGETSTART event with details and a name other than
\* "Sequential Instruction Set", current_target is the target of the one of
\* greatest time (the first in list order among equal times) with source
\* TsTargetStart, whatever the sequence resolves to; otherwise it is the
\* target the sequence resolves to, with source Sequence, or none; and the
\* rest of the baseline leaves current_target as it is.
C27_BaselineTargetFromLatestStart ==
    /\ [](BaselineTargetSet =>
            LET events == fetched
                resolved == IF IsSome(sequence)
                            THEN extract_current_target(Unwrap(sequence))
                            ELSE None
            IN  IF Announcing(events) # {}
                THEN LET d == Unwrap(events[LatestAnnouncing(events)].details)
                     IN  current_target =
                             Some(TargetInfo(d.target_name, "TsTargetStart",
                                             Some(d.coordinates),
                                             Some(d.project_name),
                                             Some(d.rotation)))
                ELSE current_target =
                         IF IsSome(resolved)
                         THEN Some(TargetInfo(Unwrap(resolved), "Sequence",
                                              None, None, None))
                         ELSE None)
    /\ [][BaselineTargetSet => current_target' = current_target]_vars

\* The history held two announcements of equal time, for M42 and then for
\* M31, the sequence resolved to M31, the images have been read, and the
\* baseline target is M42.
C27_Witness ==
    /\ pc = "send_message"
    /\ call.from = "baseline_images"
    /\ fetched = <<EvTargetM42Same, EvTargetM31>>
    /\ sequence = Some(SequenceM31)
    /\ IsSome(current_target)
    /\ Unwrap(current_target).name = M42
    /\ Unwrap(current_target).source = "TsTargetStart"

(***************************************************************************)
(* Claims about deliveries that fail                                       *)
(***************************************************************************)
\* The notifications sent in the step with effects o with an attempt that
\* failed.
FailedSends(o) ==
    { e \in Sends(o) :
        \E i \in 1 .. Len(e.sent.attempts) : ~e.sent.attempts[i].ok }

\* Every send of o attempts each channel at most once.
AttemptedAtMostOnce(o) ==
    \A e \in Sends(o) :
        \A i, j \in 1 .. Len(e.sent.attempts) :
            e.sent.attempts[i].service = e.sent.attempts[j].service => i = j

\* C28: a notification is attempted at most once on each channel, whether or
\* not the attempt fails, while it is sent and when it has been sent, and
\* with its send the handler that dispatched it returns; the event or image a step handles is in the seen set after the
\* step, before its notification is sent; a step whose event or image is in
\* the seen set dispatches nothing; and no step removes a key from the seen
\* sets.
C28_FailedDeliveryNotRetried ==
    [][ /\ AttemptedAtMostOnce(out')
        /\ events_seen \subseteq events_seen'
        /\ images_seen \subseteq images_seen'
        /\ InNotification' =>
             \A i, j \in 1 .. Len(call'.attempts) :
                 call'.attempts[i].service = call'.attempts[j].service => i = j
        /\ LastService =>
             /\ \E e \in Sends(out') : out' = <<e>> /\ e.message = call.message
             /\ ~InNotification'
        /\ ~LastService => Sends(out') = {}
        /\ (pc = "poll_events_loop") =>
             /\ should_process_event(fetched[index + 1]) =>
                  event_key(fetched[index + 1]) \in events_seen'
             /\ event_key(fetched[index + 1]) \in events_seen =>
                  Dispatches(out') = {}
        /\ (pc = "poll_images_loop") =>
             /\ image_key(fetched[index + 1]) \in images_seen'
             /\ image_key(fetched[index + 1]) \in images_seen =>
                  Dispatches(out') = {}
        /\ (InNotification /\ call.from = "poll_events_loop") =>
             event_key(fetched[index + 1]) \in events_seen
        /\ (InNotification /\ call.from = "poll_images_loop") =>
             image_key(fetched[index + 1]) \in images_seen ]_vars

\* The notification of the first event of a batch has failed on a channel,
\* and the batch presents the same event again.
C28_Witness ==
    /\ pc = "poll_events_loop"
    /\ index = 1
    /\ fetched[1] = fetched[2]
    /\ FailedSends(out) # {}
    /\ event_key(fetched[2]) \in events_seen

(***************************************************************************)
(* Claims about the autofocus events                                       *)
(***************************************************************************)
AutofocusFetchPositions(o) ==
    { i \in 1 .. Len(o) : o[i].effect = "fetch" /\ o[i].what = "autofocus" }

\* The step handles an AUTOFOCUS-FINISHED event that has not been seen before.
HandlesNewAutofocus ==
    /\ pc = "poll_events_loop"
    /\ fetched[index + 1].event = AUTOFOCUS_FINISHED
    /\ IsUnseenEvent(fetched[index + 1])

\* The event loop goes on to the next event of the batch, or to the images
\* after the last one.
LoopGoesOn ==
    IF index + 1 < Len(fetched)
    THEN pc' = "poll_events_loop" /\ index' = index + 1 /\ fetched' = fetched
    ELSE pc' = "poll_images"

\* C29: the step that handles a new AUTOFOCUS-FINISHED event leaves the event
\* in the seen set and calls get_last_autofocus, once; no other step calls
\* it; the step in which the fetch returns dispatches only if the fetch
\* succeeded and the result reports success, and then an "Autofocus
\* Completed"; when the fetch failed nothing is dispatched, the event stays
\* in the seen set and the loop goes on with the rest of the batch; a step
\* whose AUTOFOCUS-FINISHED event is in the seen set neither fetches nor
\* dispatches.
C29_AutofocusFetchedOnce ==
    [][ /\ HandlesNewAutofocus =>
             /\ out' = << Called("has_seen_event",
                                 event_key(fetched[index + 1]), FALSE),
                          Awaited("get_last_autofocus") >>
             /\ pc' = "get_last_autofocus"
             /\ index' = index /\ fetched' = fetched
             /\ event_key(fetched[index + 1]) \in events_seen'
        /\ pc' = "get_last_autofocus" => HandlesNewAutofocus
        /\ pc = "get_last_autofocus" =>
             LET response == FetchOf(out', "autofocus")
             IN  /\ Cardinality(AutofocusFetchPositions(out')) = 1
                 /\ Dispatches(out') # {} => (response.ok /\ response.value)
                 /\ \A d \in Dispatches(out') :
                        d.message.title = "Autofocus Completed"
                 /\ event_key(fetched[index + 1]) \in events_seen'
                 /\ ~response.ok => (Dispatches(out') = {} /\ LoopGoesOn)
        /\ pc # "get_last_autofocus" => AutofocusFetchPositions(out') = {}
        /\ ( /\ pc = "poll_events_loop"
             /\ fetched[index + 1].event = AUTOFOCUS_FINISHED
             /\ event_key(fetched[index + 1]) \in events_seen ) =>
             /\ out' = << Called("has_seen_event",
                                 event_key(fetched[index + 1]), TRUE) >>
             /\ pc' # "get_last_autofocus" ]_vars

\* The fetch for the AUTOFOCUS-FINISHED event at the head of a batch has
\* failed with a chat service registered, nothing was dispatched, and the
\* loop stands at the TS-TARGETSTART event that follows.
C29_Witness ==
    /\ pc = "poll_events_loop"
    /\ index = 1
    /\ services # <<>>
    /\ fetched = <<EvAutofocus, EvTargetM31>>
    /\ Cardinality(AutofocusFetchPositions(out)) = 1
    /\ ~FetchOf(out, "autofocus").ok
    /\ Dispatches(out) = {}
    /\ event_key(EvAutofocus) \in events_seen

(***************************************************************************)
(* Claims about the log of failed sequence fetches                         *)
(***************************************************************************)
\* The step has fetched the sequence with success.
SequenceFetchSucceeded ==
    \E e \in Effects(out') :
        e.effect = "fetch" /\ e.what = "sequence" /\ e.response.ok

\* C30: a successful sequence fetch, in the baseline or in a tick, leaves a
\* stored sequence; a stored sequence is never dropped; and with a stored
\* sequence poll_sequence does not log a failed fetch.  So after the first
\* success no failure is logged, however many follow.
C30_NoFailureLoggedAfterSuccess ==
    [][ /\ (pc \in {"baseline_sequence", "poll_sequence"}
            /\ SequenceFetchSucceeded)
             => sequence' # None
        /\ sequence # None => sequence' # None
        /\ sequence # None => ~SequenceFailureLogged ]_vars

\* poll_sequence has failed to fetch the sequence after an earlier success,
\* and has logged nothing.
C30_Witness ==
    /\ pc = "poll_events"
    /\ sequence # None
    /\ \E e \in Effects(out) :
         e.effect = "fetch" /\ e.what = "sequence" /\ ~e.response.ok
    /\ \A e \in Effects(out) : e.effect # "log"

(***************************************************************************)
(* Claims about a monitor without channels                                 *)
(***************************************************************************)
\* The fetches the handlers make themselves; the thumbnail and the mount
\* info are fetched inside a send_*_notification method.
MonitorFetches == {"sequence", "event_history", "image_history", "autofocus"}

\* C31: with no channel registered every step dispatches nothing, is
\* suspended in no notification and makes no fetch for one, last_image_time and skipped_images_count
\* keep their initial values, and the seen sets, current_target and
\* meridian_flip_time are updated as the same step updates them with a
\* channel registered.
C31_NoChannelsStateStillTracked ==
    [][ (services = <<>>) =>
          /\ Dispatches(out') = {}
          /\ ~InNotification'
          /\ \A e \in Effects(out') : e.effect = "fetch" => e.what \in MonitorFetches
          /\ last_image_time' = None
          /\ skipped_images_count' = 0
          /\ (pc = "poll_sequence") =>
               LET w == poll_sequence(State, <<1>>, FetchOf(out', "sequence"))
               IN  /\ current_target' = w.state.current_target
                   /\ meridian_flip_time' = w.state.meridian_flip_time
          /\ (pc = "poll_events_loop") =>
               LET w == poll_events_item(State, fetched[index + 1], <<1>>)
               IN  /\ events_seen' = w.state.events_seen
                   /\ current_target' = w.state.current_target
          /\ (pc = "poll_images_loop") =>
               LET w == poll_images_item(State, fetched[index + 1], index,
                                         <<1>>, 0)
               IN  /\ images_seen' = w.state.images_seen
                   /\ image_key(fetched[index + 1]) \in images_seen' ]_vars

\* Without channels, a tick has recorded an image that the baseline did not
\* hold, a target is stored, and the cooldown state is the initial one.
C31_Witness ==
    /\ services = <<>>
    /\ IsSome(history.baseline)
    /\ \E i \in {Image1, Image2, Image3} :
         /\ i \notin Unwrap(history.baseline).images
         /\ image_key(i) \in images_seen
    /\ IsSome(current_target)
    /\ last_image_time = None
    /\ skipped_images_count = 0

(***************************************************************************)
(* Claims about a sequence without a running target                        *)
(***************************************************************************)
\* The step has fetched a sequence that resolves to no target.
ResolvesToNoTarget ==
    /\ pc = "poll_sequence"
    /\ FetchOf(out', "sequence").ok
    /\ extract_current_target(FetchOf(out', "sequence").value) = None

\* C32: a poll_sequence step whose fetch succeeds and resolves to no target
\* leaves current_target as it is and emits no target notification, and
\* sets meridian_flip_time to the value of the fetched snapshot, None when
\* it has no meridian flip trigger with a TimeToFlip.
C32_NoTargetKeepsTarget ==
    [][ ResolvesToNoTarget =>
          /\ current_target' = current_target
          /\ TargetNotificationPositions(out') = {}
          /\ meridian_flip_time'
                 = extract_meridian_flip_time(FetchOf(out', "sequence").value) ]_vars

\* poll_sequence has fetched the idle sequence while a target resolved from
\* an earlier sequence was stored with a meridian flip time: the target is
\* kept and the time is cleared.
C32_Witness ==
    /\ pc = "poll_events"
    /\ FetchOf(out, "sequence") = Ok(SequenceIdle)
    /\ IsSome(current_target)
    /\ Unwrap(current_target).source = "Sequence"
    /\ meridian_flip_time = None
    /\ sequence = Some(SequenceIdle)

(***************************************************************************)
(* poller.rs: EventPoller, driven by a caller (as cmd_poll does) or by its  *)
(* own poll_continuously.                                                  *)
(*                                                                         *)
(* The poller is held in `call`: seen_events, poll_interval and            *)
(* last_poll_time, an Instant kept as the time elapsed since it (None or   *)
(* Some(e), capped at MaxPollElapsed), and start_time likewise while a     *)
(* call of poll_new_events is running.  `history` holds the keys of the    *)
(* events returned as new since the last reset, those the last reset       *)
(* dropped, the time elapsed since the previous fetch was issued, and      *)
(* whether the last fetch was issued at least poll_interval after the one  *)
(* before it.                                                              *)
(***************************************************************************)
PollerInterval == 2

PollerDelay == 1

PollerBatch == 2

MaxPollElapsed == PollerInterval + PollerDelay + 1

PollerEvents == {EvCameraConnected, EvFilterChange}

\* An Instant after d more units of time.
Elapse(instant, d) ==
    IF instant = None THEN None
    ELSE Some(IF Unwrap(instant) + d > MaxPollElapsed THEN MaxPollElapsed
              ELSE Unwrap(instant) + d)

create_event_key(event) ==
    IF IsSome(event.details)
    THEN Str(event.time) \o ":" \o event.event \o ":"
         \o DebugEventDetails(Unwrap(event.details))
    ELSE Str(event.time) \o ":" \o event.event

\* A faulty variant of find_new_events: the keys of a batch are recorded
\* after the batch has been scanned.
find_new_events_recording_late(seen_events, events) ==
    LET fresh == { i \in 1 .. Len(events) :
                     create_event_key(events[i]) \notin seen_events }
    IN  [seen_events |->
             seen_events \cup { create_event_key(events[i]) : i \in fresh },
         new_events |-> SelectSeq(events,
                            LAMBDA e : create_event_key(e) \notin seen_events)]

RECURSIVE find_new_events(_, _)
find_new_events(seen_events, events) ==
    IF events = <<>> THEN [seen_events |-> seen_events, new_events |-> <<>>]
    ELSE LET event == Head(events)
             event_key_ == create_event_key(event)
         IN  IF event_key_ \notin seen_events
             THEN LET rest == find_new_events(seen_events \cup {event_key_},
                                              Tail(events))
                  IN  [rest EXCEPT !.new_events = <<event>> \o @]
             ELSE find_new_events(seen_events, Tail(events))

\* The intervals set_poll_interval is called with.
PollerIntervals == {1, PollerInterval}

\* The sleep of poll_continuously after a failed poll, in seconds.
ErrorSleep == 30

\* EventPoller::new; `driver` tells who calls the poller: a caller that owns
\* it, or the loop of poll_continuously, which borrows it for good.
EventPoller_new(poll_interval) ==
    [fn |-> "EventPoller", seen_events |-> {}, poll_interval |-> poll_interval,
     last_poll_time |-> None, start_time |-> None, driver |-> "caller"]

NoPolls ==
    [recorded |-> {}, forgotten |-> {}, since_issue |-> None, spaced |-> TRUE]

\* Whether a fetch issued `since` after the fetch before it (None: there was
\* none) has left it the interval.
Spaced(since, interval) == IsSome(since) => Unwrap(since) >= interval

\* A call of a method of the poller that does not suspend.
Invoked(fn) == [effect |-> "call", fn |-> fn]

poller_unused_vars ==
    <<services, events_seen, images_seen, current_target, meridian_flip_time,
      sequence, last_image_time, skipped_images_count, remote, fetched, index>>

InitPoller ==
    /\ pc = "idle"
    /\ services = <<>>
    /\ events_seen = {}
    /\ images_seen = {}
    /\ current_target = None
    /\ meridian_flip_time = None
    /\ sequence = None
    /\ last_image_time = None
    /\ skipped_images_count = 0
    /\ remote = [events |-> PollerEvents, images |-> {}, sequences |-> {}]
    /\ fetched = <<>>
    /\ index = 0
    /\ out = <<>>
    /\ history = NoPolls
    /\ call = EventPoller_new(PollerInterval)
    /\ ret = None

\* poll_new_events up to the fetch (lines 39-49), called `idle` units of time
\* after the previous operation returned: the sleep lasts the time that is
\* missing to poll_interval (the shortest sleep the timer gives).
PollNewEventsWaits ==
    /\ pc = "idle"
    /\ \E idle \in 0 .. PollerDelay :
         LET last_poll == Elapse(call.last_poll_time, idle)
             sleep_duration ==
                 IF IsSome(last_poll) /\ Unwrap(last_poll) < call.poll_interval
                 THEN call.poll_interval - Unwrap(last_poll)
                 ELSE 0
         IN  /\ call' = [call EXCEPT
                           !.last_poll_time = Elapse(last_poll, sleep_duration),
                           !.start_time = Some(sleep_duration)]
             /\ history' = [history EXCEPT
                              !.since_issue =
                                  Elapse(@, idle + sleep_duration)]
             /\ out' = IF sleep_duration > 0
                       THEN <<[effect |-> "sleep", duration |-> sleep_duration]>>
                       ELSE <<>>
    /\ pc' = "fetch"
    /\ UNCHANGED <<ret, poller_unused_vars>>

\* poll_new_events from the fetch on (lines 52-63): the fetch takes `took`
\* units of time, and a failed one returns through `?`.  Under
\* poll_continuously the result goes to the loop (lines 77-89), which awaits
\* the callback when there are new events and logs an error and sleeps
\* after a failed poll.
PollNewEventsFetches ==
    /\ pc = "fetch"
    /\ \E response \in Fetches(Histories(remote.events, PollerBatch)), took \in 0 .. PollerDelay :
         LET poll_duration == Unwrap(Elapse(call.start_time, took))
             found == find_new_events(call.seen_events, response.value)
             looping == call.driver = "poll_continuously"
         IN  IF response.ok
             THEN /\ out' = <<Fetched("event_history", response)>>
                  /\ call' = [call EXCEPT !.seen_events = found.seen_events,
                                          !.last_poll_time = Some(0),
                                          !.start_time = None]
                  /\ ret' = Some(Ok([new_events |-> found.new_events,
                                     total_events |-> Len(response.value),
                                     poll_duration |-> poll_duration]))
                  /\ history' =
                         [forgotten |-> history.forgotten,
                          recorded |->
                              history.recorded
                              \cup { create_event_key(found.new_events[i]) :
                                       i \in 1 .. Len(found.new_events) },
                          since_issue |-> Some(took),
                          spaced |-> Spaced(history.since_issue,
                                            call.poll_interval)]
                  /\ pc' = IF looping /\ found.new_events # <<>>
                           THEN "callback" ELSE "idle"
             ELSE /\ out' = <<Fetched("event_history", response)>>
                            \o IF looping THEN <<Logged("Polling error")>>
                               ELSE <<>>
                  /\ call' = [call EXCEPT
                                !.last_poll_time = Elapse(@, took),
                                !.start_time = None]
                  /\ ret' = Some(Err)
                  /\ history' = [history EXCEPT
                                   !.since_issue = Some(took),
                                   !.spaced = Spaced(history.since_issue,
                                                     call.poll_interval)]
                  /\ pc' = IF looping THEN "error_sleep" ELSE "idle"
    /\ UNCHANGED poller_unused_vars

\* poll_continuously is called: the loop takes the poller over (line 76).
PollContinuously ==
    /\ pc = "idle"
    /\ call.driver = "caller"
    /\ call' = [call EXCEPT !.driver = "poll_continuously"]
    /\ out' = <<Invoked("poll_continuously")>>
    /\ ret' = None
    /\ UNCHANGED <<pc, history, poller_unused_vars>>

\* The callback of poll_continuously returns after `took` units of time
\* (lines 79-83); its error is logged.
CallbackReturns ==
    /\ pc = "callback"
    /\ \E took \in 0 .. PollerDelay, ok \in BOOLEAN :
         /\ call' = [call EXCEPT !.last_poll_time = Elapse(@, took)]
         /\ history' = [history EXCEPT !.since_issue = Elapse(@, took)]
         /\ out' = IF ok THEN <<>> ELSE <<Logged("Callback error")>>
    /\ pc' = "idle"
    /\ UNCHANGED <<ret, poller_unused_vars>>

\* sleep(Duration::from_secs(30)) of poll_continuously ends (line 88).
ErrorSleepEnds ==
    /\ pc = "error_sleep"
    /\ call' = [call EXCEPT !.last_poll_time = Elapse(@, ErrorSleep)]
    /\ history' = [history EXCEPT !.since_issue = Elapse(@, ErrorSleep)]
    /\ out' = <<[effect |-> "sleep", duration |-> ErrorSleep]>>
    /\ pc' = "idle"
    /\ UNCHANGED <<ret, poller_unused_vars>>

SeenEventCount ==
    /\ pc = "idle"
    /\ call.driver = "caller"
    /\ ret' = Some(Ok([seen_event_count |-> Cardinality(call.seen_events)]))
    /\ out' = <<Invoked("seen_event_count")>>
    /\ UNCHANGED <<pc, call, history, poller_unused_vars>>

ResetSeenEvents ==
    /\ pc = "idle"
    /\ call.driver = "caller"
    /\ call' = [call EXCEPT !.seen_events = {}]
    /\ history' = [history EXCEPT !.recorded = {}, !.forgotten = call.seen_events]
    /\ ret' = None
    /\ out' = <<Invoked("reset_seen_events")>>
    /\ UNCHANGED <<pc, poller_unused_vars>>

SetPollInterval ==
    /\ pc = "idle"
    /\ call.driver = "caller"
    /\ \E interval \in PollerIntervals :
         call' = [call EXCEPT !.poll_interval = interval]
    /\ ret' = None
    /\ out' = <<Invoked("set_poll_interval")>>
    /\ UNCHANGED <<pc, history, poller_unused_vars>>

NextPoller ==
    \/ PollNewEventsWaits
    \/ PollNewEventsFetches
    \/ PollContinuously
    \/ CallbackReturns
    \/ ErrorSleepEnds
    \/ SeenEventCount
    \/ ResetSeenEvents
    \/ SetPollInterval

SpecPoller == InitPoller /\ [][NextPoller]_vars

(***************************************************************************)
(* Claims about the keys the event poller has recorded                     *)
(***************************************************************************)
\* The positions of a batch that hold a key not recorded so far, for the
\* first time in the batch.
FirstUnrecorded(events, recorded) ==
    { i \in 1 .. Len(events) :
        /\ create_event_key(events[i]) \notin recorded
        /\ \A j \in 1 .. (i - 1) :
             create_event_key(events[j]) # create_event_key(events[i]) }

\* The events at the positions P of a batch, in the order of the batch.
EventsAt(events, P) ==
    [ n \in 1 .. Cardinality(P) |->
        events[CHOOSE i \in P : Cardinality({ j \in P : j < i }) = n - 1] ]

\* C33: a successful poll_new_events returns the fetched events whose key was
\* not returned since construction or the last reset_seen_events, each once,
\* in fetch order, and records their keys; a failed one records nothing;
\* seen_events is at all times the set of the keys returned since the last
\* reset, seen_event_count returns its size, and reset_seen_events empties
\* it.
C33_NewEventsAreTheUnrecorded ==
    /\ [](call.seen_events = history.recorded)
    /\ [][ /\ (pc = "fetch" /\ FetchOf(out', "event_history").ok) =>
                 LET events == FetchOf(out', "event_history").value
                 IN  /\ Unwrap(ret').value.new_events
                            = EventsAt(events,
                                       FirstUnrecorded(events, history.recorded))
                     /\ Unwrap(ret').value.total_events = Len(events)
                     /\ call'.seen_events
                            = history.recorded
                              \cup { create_event_key(events[i]) :
                                       i \in 1 .. Len(events) }
           /\ (pc = "fetch" /\ ~FetchOf(out', "event_history").ok) =>
                 (ret' = Some(Err) /\ call'.seen_events = call.seen_events)
           /\ out' = <<Invoked("seen_event_count")>> =>
                 Unwrap(ret').value.seen_event_count
                     = Cardinality(history.recorded)
           /\ out' = <<Invoked("reset_seen_events")>> =>
                 call'.seen_events = {}
           /\ (pc # "fetch" /\ out' # <<Invoked("reset_seen_events")>>) =>
                 call'.seen_events = call.seen_events ]_vars

\* After a reset, a poll has returned as new an event that an earlier poll
\* had returned, once, from a batch that held it twice.
C33_Witness ==
    /\ pc = "idle"
    /\ ret # None
    /\ Unwrap(ret).ok
    /\ "new_events" \in DOMAIN Unwrap(ret).value
    /\ Unwrap(ret).value.total_events = 2
    /\ Len(Unwrap(ret).value.new_events) = 1
    /\ create_event_key(Unwrap(ret).value.new_events[1]) \in history.forgotten
    /\ FetchOf(out, "event_history").value[1] = FetchOf(out, "event_history").value[2]
    /\ Cardinality(call.seen_events) = 1
    /\ call.last_poll_time = Some(0)

(***************************************************************************)
(* Claims about the time between the fetches of the event poller           *)
(***************************************************************************)
\* C34: whenever poll_new_events issues a fetch, at least poll_interval has
\* elapsed since the previous fetch was issued, whether that fetch succeeded
\* or failed.
C34_FetchesSpacedByInterval == history.spaced

\* The same, for a fetch that follows a successful one.
C34_SpacedAfterSuccess ==
    [][ (pc = "fetch" /\ call.last_poll_time # None
         /\ history.since_issue # None
         /\ Unwrap(call.last_poll_time) <= Unwrap(history.since_issue)) =>
            history'.spaced ]_vars

(***************************************************************************)
(* Claims about the remaining cooldown                                     *)
(***************************************************************************)
\* C35: a step of the image loop that suppresses the image computes a
\* remaining cooldown that is not negative: the subtraction of the elapsed
\* time, read a second time, from the cooldown does not panic.
C35_RemainingCooldownNotNegative ==
    [][ (pc = "poll_images_loop"
         /\ \E d \in Decisions(out') : ~d.should_send) =>
            pc' # "panicked" ]_vars

(***************************************************************************)
(* Claims about the account of the new images                              *)
(***************************************************************************)
ImageDispatchPositions(o) ==
    { i \in 1 .. Len(o) : IsImageDispatch(o[i]) }

\* The skipped counts the image notifications of o report, summed; a step
\* sends one image notification at most.
ReportedSkipped(o) ==
    IF ImageDispatchPositions(o) = {} THEN 0
    ELSE o[CHOOSE i \in ImageDispatchPositions(o) : TRUE].message.skipped

\* The step finds an image new: 1 when it does, 0 otherwise.
FoundNew ==
    IF /\ pc = "poll_images_loop"
       /\ image_key(fetched[index + 1]) \notin images_seen
    THEN 1 ELSE 0

\* The skipped counts reported by the image notifications whose send returns
\* in the step with effects o, summed; one send returns in a step at most.
SettledSkipped(o) ==
    IF ImagesSent(o) = {} THEN 0
    ELSE (CHOOSE e \in ImagesSent(o) : TRUE).message.skipped

\* C36 as stated: with a channel registered, the account of the new images is
\* balanced at the start (nothing found, nothing sent, nothing skipped) and
\* every step keeps it balanced: the new images the step finds are as many
\* as the image notifications it sends, plus the skipped counts these
\* report, plus what it adds to skipped_images_count.  So in every state the
\* images found new equal the notifications sent plus the skipped counts
\* reported plus skipped_images_count.
C36_NewImagesAccounted ==
    /\ [](pc = "start" => skipped_images_count = 0)
    /\ [][ (services # <<>>) =>
             /\ Cardinality(ImageDispatchPositions(out')) <= 1
             /\ FoundNew = Cardinality(ImageDispatchPositions(out'))
                           + ReportedSkipped(out')
                           + (skipped_images_count' - skipped_images_count) ]_vars

\* C36, amended: with a channel registered, every new image is either
\* notified or counted as suppressed, exactly once, in the step that finds
\* it; the count a notification reports stays in skipped_images_count while
\* the notification is sent and is taken off when its send returns.  So the
\* images found new equal the notifications sent plus the skipped counts
\* reported plus skipped_images_count in every state but those in which an
\* image notification reporting skipped images is being sent.
C36_NewImagesAccountedOnReturn ==
    /\ [](pc = "start" => skipped_images_count = 0)
    /\ [][ (services # <<>>) =>
             /\ Cardinality(ImageDispatchPositions(out')) <= 1
             /\ FoundNew = Cardinality(ImageDispatchPositions(out'))
                           + SettledSkipped(out')
                           + (skipped_images_count' - skipped_images_count)
             /\ (SettledSkipped(out') > 0 \/ ReportedSkipped(out') > 0) =>
                  (InNotification \/ InNotification') ]_vars

\* The send of an image notification that reports a suppressed image has
\* returned, and the count is taken off.
C36_Witness ==
    /\ services # <<>>
    /\ skipped_images_count = 0
    /\ IsSome(last_image_time)
    /\ SettledSkipped(out) = 1

\* C37: last_image_time always holds the time elapsed since the dispatch of
\* the last image notification returned; an image notification is started
\* only when there has been none before or at least the cooldown has elapsed
\* since then; and a new image handled after an image notification of the
\* same tick, less than the cooldown after it, is suppressed.
C37_CooldownSinceLastDispatch ==
    /\ [](last_image_time = history.image_sent)
    /\ [][ \A d \in Decisions(out') :
             /\ (d.should_send /\ IsSome(history.image_sent)) =>
                  /\ IsSome(d.last_image_time)
                  /\ elapsed(d.last_image_time) >= elapsed(history.image_sent)
                  /\ elapsed(d.last_image_time) >= ImageCooldown
                  /\ ImageDispatches(out') # {}
             /\ ("images" \in history.dispatched
                 /\ IsSome(d.last_image_time)
                 /\ elapsed(d.last_image_time) < ImageCooldown) =>
                  /\ ~d.should_send
                  /\ ImageDispatches(out') = {} ]_vars

\* The second new image of a tick has been suppressed right after the
\* notification of the first one.
C37_Witness ==
    /\ "images" \in history.dispatched
    /\ index = 0 /\ pc = "sleep"
    /\ history.image_sent # None
    /\ elapsed(history.image_sent) < ImageCooldown
    /\ \E d \in Decisions(out) :
          ~d.should_send /\ elapsed(d.last_image_time) < ImageCooldown
    /\ skipped_images_count = 1

\* The image notifications sent in the step with effects o that no channel
\* accepted and whose thumbnail could not be fetched.
UndeliveredImageSends(o) ==
    { e \in ImagesSent(o) :
        /\ e.sent.attempts # <<>>
        /\ \A i \in 1 .. Len(e.sent.attempts) :
              ~e.sent.attempts[i].ok /\ ~e.sent.attempts[i].attachment }

\* C38: a step in which handle_new_image decides to send calls the image
\* notification, the steps of the notification before its last channel has
\* answered leave the gate as it is, and the step in which its send returns
\* ends with
\* last_image_time set to the end of the dispatch and skipped_images_count
\* at zero, whatever the thumbnail fetch and the channels answered: the
\* state after the step is the one the same step leaves when the thumbnail
\* is fetched and every channel accepts the notification.
C38_GateSetWhateverChannelsAnswer ==
    [][ /\ \A d \in Decisions(out') :
             d.should_send =>
               \E m \in ImageDispatches(out') :
                 HandsOver(m.message, "poll_images_loop")
        /\ (InNotification /\ ~LastService) =>
             /\ last_image_time' = last_image_time
             /\ skipped_images_count' = skipped_images_count
        /\ (LastService /\ call.from = "poll_images_loop") =>
             /\ ImagesSent(out') # {}
             /\ last_image_time' = Some(0)
             /\ skipped_images_count' = 0
             /\ State' = handle_new_image_sent(
                             State,
                             send_message_with_image(services, {}, TRUE)) ]_vars

\* An image notification reporting suppressed images has failed on every
\* channel, without its thumbnail, and the gate is set.
C38_Witness ==
    /\ \E e \in UndeliveredImageSends(out) : e.message.skipped > 0
    /\ last_image_time = Some(0)
    /\ skipped_images_count = 0

\* The positions of the notifications of the given title among the effects o.
TitledPositions(o, title) ==
    { i \in DispatchPositions(o) : o[i].message.title = title }

\* C39: no step clears a stored current_target, and no step replaces a
\* target of source TsTargetStart by one of source Sequence; a step emits at
\* most one target notification, a "Target Started" only from a state
\* without a target into a state with one, and a "Target Change" only from a
\* state with a target.  A run therefore holds at most one "Target Started",
\* and the target notifications after it are "Target Change".
C39_TargetStaysAndStartsOnce ==
    [][ /\ IsSome(current_target) => IsSome(current_target')
        /\ HasTsTarget => Unwrap(current_target').source = "TsTargetStart"
        /\ \A i, j \in TargetNotificationPositions(out') : i = j
        /\ TitledPositions(out', "Target Started") # {} =>
             /\ current_target = None
             /\ IsSome(current_target')
        /\ TitledPositions(out', "Target Change") # {} =>
             IsSome(current_target)
        /\ IsSome(current_target) =>
             TitledPositions(out', "Target Started") = {} ]_vars

\* A target announced by TS-TARGETSTART has replaced one resolved from the
\* sequence, with a "Target Change", and the stored sequence resolves to a
\* target of another name.
C39_Witness ==
    /\ HasTsTarget
    /\ TitledPositions(out, "Target Change") # {}
    /\ \E i \in TitledPositions(out, "Target Change") :
          /\ IsSome(sequence)
          /\ extract_current_target(Unwrap(sequence))
                 = Some(out[i].message.previous_target)
          /\ out[i].message.previous_target # Unwrap(current_target).name

-----------------------------------------------------------------------------
(* api.rs: the retry loops of SpaceCatApiClient; config.rs: validate.      *)

\* The largest retry_attempts that Config::validate accepts.
RetryAttemptsLimit == 10

\* The largest retry_attempts of the clients checked.
MaxRetryAttempts == 3

\* Config::validate, as far as api.retry_attempts (a u32) goes.
validate(retry_attempts) == retry_attempts <= RetryAttemptsLimit

ValidRetryAttempts == { n \in 0 .. MaxRetryAttempts : validate(n) }

\* The effects of a call: a request is sent, send() returns (a 2xx
\* answer, an answer of another status, or an error), the body of the answer
\* is read (and parsed) or not, a sleep begins.
Requested == [effect |-> "request"]

SendResults == {"success", "http_error", "network_error"}

Answered(answer) == [effect |-> "answer", answer |-> answer]

BodyRead(ok) == [effect |-> "body", ok |-> ok]

Slept(millis) == [effect |-> "sleep", millis |-> millis]

ApiError(kind, message) == [ok |-> FALSE, error |-> kind, message |-> message]

\* A call of the client: the function, the retry_attempts of the client, the
\* loop variable and, in generic_request_with_retry, last_error.
ApiCall(fn, retry_attempts) ==
    [fn |-> fn, retry_attempts |-> retry_attempts, attempt |-> 0,
     last_error |-> None]

retry_unused_vars ==
    <<services, events_seen, images_seen, current_target, meridian_flip_time,
      sequence, last_image_time, skipped_images_count, remote, fetched, index,
      history>>

\* A client built by SpaceCatApiClient::new from a validated configuration,
\* and a JSON fetch or a thumbnail fetch about to be called.
InitRetry ==
    /\ pc \in {"generic_request_with_retry", "get_thumbnail_with_params"}
    /\ \E n \in ValidRetryAttempts : call = ApiCall(pc, n)
    /\ services = <<>>
    /\ events_seen = {}
    /\ images_seen = {}
    /\ current_target = None
    /\ meridian_flip_time = None
    /\ sequence = None
    /\ last_image_time = None
    /\ skipped_images_count = 0
    /\ remote = NoRemote
    /\ fetched = <<>>
    /\ index = 0
    /\ out = <<>>
    /\ history = NoHistory
    /\ ret = None

\* The call runs up to an await, where it is suspended with the effects o
\* made on the way, or up to its return.
Suspended(c, o, at) == [call |-> c, out |-> o, ret |-> None, pc |-> at]

Returned(c, o, result) ==
    [call |-> c, out |-> o, ret |-> Some(result), pc |-> "returned"]

\* generic_request_with_retry from the top of a loop pass (lines 124-139) to
\* the sleep before a retry or to send(), or, past the last pass, to the
\* return after the loop (163-166).
generic_request_with_retry_pass(c) ==
    IF c.attempt > c.retry_attempts
    THEN Returned(c, <<>>,
                  IF IsSome(c.last_error) THEN Unwrap(c.last_error)
                  ELSE ApiError("Http", "Max retries exceeded"))
    ELSE IF c.attempt > 0
    THEN Suspended(c, <<Slept(1000 * c.attempt)>>, "sleep")
    ELSE Suspended(c, <<Requested>>, "send")

\* `last_error = Some(ApiError::Network(e)); continue` (lines 144-146 and
\* 157-159).
generic_request_with_retry_continue(c) ==
    generic_request_with_retry_pass(
        [c EXCEPT !.attempt = @ + 1,
                  !.last_error = Some(ApiError("Network", ""))])

\* get_thumbnail_with_params from the top of a loop pass (lines 256-268) to
\* send(), or, when the range is used up, to the return after the loop
\* (322-325).
get_thumbnail_with_params_pass(c) ==
    IF c.attempt >= c.retry_attempts
    THEN Returned(c, <<>>, ApiError("Http", "All retry attempts exhausted"))
    ELSE Suspended(c, <<Requested>>, "send")

\* A failed attempt of get_thumbnail_with_params (lines 271-276, 292-297 and
\* 311-318): a sleep when it is not the last one, the error otherwise.
get_thumbnail_with_params_failed(c, error) ==
    IF c.attempt < c.retry_attempts - 1
    THEN Suspended(c, <<Slept(1000 * (c.attempt + 1))>>, "sleep")
    ELSE Returned(c, <<>>, error)

\* The step of a call that ends as r says: its effects are added to those of
\* the call.
Resumed(before, r) ==
    /\ call' = r.call
    /\ out' = out \o before \o r.out
    /\ ret' = r.ret
    /\ pc' = r.pc
    /\ UNCHANGED retry_unused_vars

\* The function is called and runs to its first await.
ApiCalled ==
    \/ /\ pc = "generic_request_with_retry"
       /\ Resumed(<<>>, generic_request_with_retry_pass(call))
    \/ /\ pc = "get_thumbnail_with_params"
       /\ Resumed(<<>>, get_thumbnail_with_params_pass(call))

\* tokio::time::sleep returns: the JSON fetch sends its request (api.rs
\* 131-139), the thumbnail fetch goes to its next pass (273-274, 294-296,
\* 312-313).
SleepReturns ==
    /\ pc = "sleep"
    /\ IF call.fn = "generic_request_with_retry"
       THEN Resumed(<<>>, Suspended(call, <<Requested>>, "send"))
       ELSE Resumed(<<>>, get_thumbnail_with_params_pass(
                              [call EXCEPT !.attempt = @ + 1]))

\* send() returns (api.rs 139-161 and 268-287): a 2xx answer leads to the
\* reading of its body, another status to the reading of the error text, an
\* error to the next pass or to the return.
SendReturns ==
    /\ pc = "send"
    /\ \E answer \in SendResults :
         Resumed(<<Answered(answer)>>,
                 IF answer = "success" THEN Suspended(call, <<>>, "body")
                 ELSE IF answer = "http_error" THEN Suspended(call, <<>>, "text")
                 ELSE IF call.fn = "generic_request_with_retry"
                 THEN generic_request_with_retry_continue(call)
                 ELSE get_thumbnail_with_params_failed(
                          call, ApiError("Network", "")))

\* response.json() (api.rs 142-148) or response.bytes() (289-306) returns.
BodyReturns ==
    /\ pc = "body"
    /\ \E ok \in BOOLEAN :
         Resumed(<<BodyRead(ok)>>,
                 IF ok THEN Returned(call, <<>>, Ok("body"))
                 ELSE IF call.fn = "generic_request_with_retry"
                 THEN generic_request_with_retry_continue(call)
                 ELSE get_thumbnail_with_params_failed(
                          call, ApiError("Network", "")))

\* response.text() returns (api.rs 150-155 and 307-318): the JSON fetch
\* returns the HTTP error, the thumbnail fetch retries.
TextReturns ==
    /\ pc = "text"
    /\ \E read \in BOOLEAN :
         LET error == ApiError("Http", IF read THEN "text" ELSE "Unknown error")
         IN  Resumed(<<>>,
                     IF call.fn = "generic_request_with_retry"
                     THEN Returned(call, <<>>, error)
                     ELSE get_thumbnail_with_params_failed(call, error))

NextRetry ==
    \/ ApiCalled
    \/ SleepReturns
    \/ SendReturns
    \/ BodyReturns
    \/ TextReturns

SpecRetry == InitRetry /\ [][NextRetry]_vars

\* The HTTP attempts among the effects o.
AttemptsOf(o) == SelectSeq(o, LAMBDA e : e.effect = "request")

\* The attempts of o end at the first successful one (a 2xx answer whose
\* body has been read), which is the last effect of a call that has
\* returned Ok.
EndsAtFirstSuccess(o) ==
    \A i \in 1 .. Len(o) :
        o[i] = BodyRead(TRUE) =>
            /\ i = Len(o)
            /\ pc = "returned"
            /\ ret = Some(Ok("body"))

\* C40 as stated: a fetch through the client, JSON or thumbnail, never makes
\* more than retry_attempts + 1 HTTP attempts, has made at least one when it
\* returns, makes none after a successful one, and returns Ok exactly when
\* its last attempt was successful.
C40_AttemptsWithinRetries ==
    /\ Len(AttemptsOf(out)) <= call.retry_attempts + 1
    /\ EndsAtFirstSuccess(out)
    /\ pc = "returned" =>
         /\ Len(AttemptsOf(out)) >= 1
         /\ Unwrap(ret).ok <=> out[Len(out)] = BodyRead(TRUE)

\* The same for the JSON fetches alone.
C40_JsonAttemptsWithinRetries ==
    call.fn = "generic_request_with_retry" => C40_AttemptsWithinRetries

\* A thumbnail fetch makes at most retry_attempts HTTP attempts, none when
\* retry_attempts is 0, and ends at the first successful one.
C40_ThumbnailAttempts ==
    call.fn = "get_thumbnail_with_params" =>
        /\ Len(AttemptsOf(out)) <= call.retry_attempts
        /\ EndsAtFirstSuccess(out)
        /\ pc = "returned" =>
             /\ Len(AttemptsOf(out)) = 0 <=> call.retry_attempts = 0
             /\ Unwrap(ret).ok <=> /\ out # <<>>
                                   /\ out[Len(out)] = BodyRead(TRUE)

\* A thumbnail fetch of a client with retry_attempts 0 has returned an error
\* without an HTTP attempt.
C40_ThumbnailNeverRequested ==
    /\ pc = "returned"
    /\ call.fn = "get_thumbnail_with_params"
    /\ call.retry_attempts = 0
    /\ out = <<>>
    /\ ~Unwrap(ret).ok

\* A JSON fetch has returned Ok at its last permitted attempt, after as many
\* failed ones as retry_attempts.
C40_JsonLastAttemptSucceeds ==
    /\ pc = "returned"
    /\ call.fn = "generic_request_with_retry"
    /\ call.retry_attempts = MaxRetryAttempts
    /\ Len(AttemptsOf(out)) = call.retry_attempts + 1
    /\ Unwrap(ret).ok
====
